---- MODULE Spec2Model ----
(***************************************************************************)
(* Model of the Nora support chat client (frontend/app/page.tsx): the      *)
(* Home component's React state, the chat turn handler handleSendMessage   *)
(* with its stream read loop, its two timers and the UI handlers that can  *)
(* run while a turn is in flight.                                          *)
(*                                                                         *)
(* Text is modelled as a sequence of tokens.  A token is an indivisible    *)
(* run of characters: the newline, the "data: " marker, a blank, the       *)
(* [DONE] sentinel, a malformed JSON text, or one complete JSON text.      *)
(* Chunk boundaries fall between tokens.  A JSON text is named by a        *)
(* string and JSONParse gives the object it denotes.                       *)
(*                                                                         *)
(* A handler invocation reads the state variables of the render that       *)
(* created it: handleSendMessage sees isLoading and rateLimitTimer as they *)
(* were when it was called (capLoading, capTimer), whatever it sets later. *)
(*                                                                         *)
(* Bulk mode is the upload handler handleFileUpload, the batch loop        *)
(* startBulkProcessing with processBatch, and the Process and Clear        *)
(* buttons; a run is one invocation of startBulkProcessing.                *)
(*                                                                         *)
(* The session id is the state sessionId with the effect that generates    *)
(* it; sessionSent and toggled are history variables.  The server's        *)
(* pipeline (classifier, router, retrieval, generation) has no code in     *)
(* this source tree: pipe follows the specification's description of it.   *)
(***************************************************************************)
EXTENDS Integers, Sequences, FiniteSets, TLC

\* ---------------------------------------------------------------- bounds
MaxTurns == 2          \* chat turns per behaviour of Spec and SpecSession
MaxFrames == 3         \* frames per response stream of SpecReducer
MaxTickets == 12       \* tickets per uploaded file of SpecBulkRun
MaxRuns == 2           \* bulk runs per behaviour of SpecBulk

\* The turns of a behaviour, numbered in the order of their calls of
\* handleSendMessage: SpecWatchdog runs one more than Spec.
Turns == 1..(MaxTurns + 1)
SpecTurns == 1..MaxTurns

\* ------------------------------------------------------- JSON values
\* An absent (undefined) string field is "", which is as falsy as the empty
\* string; an absent object field has present = FALSE.
NoCitations == [present |-> FALSE, items |-> <<>>]
NoRag == [present |-> FALSE, answer |-> "", sources |-> <<>>]
NoRouting == [present |-> FALSE, message |-> ""]
NoFinalResponse ==
  [present |-> FALSE, response_type |-> "",
   rag_response |-> NoRag, routing_response |-> NoRouting]
NoAnalysis == [present |-> FALSE, classification |-> ""]
NoFinalResult ==
  [present |-> FALSE, internal_analysis |-> NoAnalysis,
   final_response |-> NoFinalResponse]
NoData == [kind |-> "none", str |-> "", cls |-> "", fr |-> NoFinalResult]
NoResponse == [present |-> FALSE, data |-> "", citations |-> NoCitations]
EmptyObject ==
  [type |-> "", node |-> "", message |-> "", data |-> NoData,
   content |-> "", response |-> NoResponse, citations |-> NoCitations,
   internal_analysis |-> NoAnalysis, final_response |-> NoFinalResponse]

Rag(answer, sources) ==
  [present |-> TRUE, answer |-> answer, sources |-> sources]
Routing(message) == [present |-> TRUE, message |-> message]
Analysis(cls) == [present |-> TRUE, classification |-> cls]
FinalResponse(rtype, rag, routing) ==
  [present |-> TRUE, response_type |-> rtype,
   rag_response |-> rag, routing_response |-> routing]

\* The FinalResult values the server sends.  "rag", "ragNoSrc" and "route"
\* satisfy the data-model invariant (exactly one of rag_response and
\* routing_response set, matching response_type, with text); the others do
\* not.
FinalResultIds == {"rag", "ragNoSrc", "route", "both", "none", "ragBlank"}
ValidFinalResultIds == {"rag", "ragNoSrc", "route"}

FinalResult(id) ==
  CASE id = "rag" ->
         [present |-> TRUE, internal_analysis |-> Analysis("c1"),
          final_response |->
            FinalResponse("rag_answer", Rag("A1", <<"s1", "s2">>), NoRouting)]
    [] id = "ragNoSrc" ->
         [present |-> TRUE, internal_analysis |-> Analysis("c2"),
          final_response |->
            FinalResponse("rag_answer", Rag("A2", <<>>), NoRouting)]
    [] id = "route" ->
         [present |-> TRUE, internal_analysis |-> Analysis("c3"),
          final_response |->
            FinalResponse("routing_message", NoRag, Routing("R1"))]
    [] id = "both" ->
         [present |-> TRUE, internal_analysis |-> Analysis("c4"),
          final_response |->
            FinalResponse("routing_message", Rag("A3", <<"s3">>),
                          Routing("R3"))]
    [] id = "none" ->
         [present |-> TRUE, internal_analysis |-> Analysis("c5"),
          final_response |-> FinalResponse("rag_answer", NoRag, NoRouting)]
    [] id = "ragBlank" ->
         [present |-> TRUE, internal_analysis |-> Analysis("c6"),
          final_response |->
            FinalResponse("rag_answer", Rag("", <<"s4">>), NoRouting)]

\* The JSON text of a FinalResult in the flattened shape
\* {internal_analysis, final_response} and in the wrapped shape
\* {type: "final_result", data: FinalResult}.
FlatText(id) ==
  CASE id = "rag" -> "flat_rag" [] id = "ragNoSrc" -> "flat_ragNoSrc"
    [] id = "route" -> "flat_route" [] id = "both" -> "flat_both"
    [] id = "none" -> "flat_none" [] id = "ragBlank" -> "flat_ragBlank"
WrapText(id) ==
  CASE id = "rag" -> "wrap_rag" [] id = "ragNoSrc" -> "wrap_ragNoSrc"
    [] id = "route" -> "wrap_route" [] id = "both" -> "wrap_both"
    [] id = "none" -> "wrap_none" [] id = "ragBlank" -> "wrap_ragBlank"

Flattened(fr) ==
  [EmptyObject EXCEPT !.internal_analysis = fr.internal_analysis,
                      !.final_response = fr.final_response]
Wrapped(fr) ==
  [EmptyObject EXCEPT !.type = "final_result",
                      !.data = [NoData EXCEPT !.kind = "fr", !.fr = fr]]

\* The other JSON texts of the protocol.
OtherJson(tok) ==
  CASE tok = "node_classify" ->
         [EmptyObject EXCEPT !.type = "node_complete", !.node = "classify",
            !.message = "Completed classify",
            !.data = [NoData EXCEPT !.kind = "cls", !.cls = "c0"]]
    [] tok = "node_search" ->
         [EmptyObject EXCEPT !.type = "node_complete",
            !.node = "document_search", !.message = "Completed document_search"]
    [] tok = "node_custom" ->
         [EmptyObject EXCEPT !.type = "node_complete", !.node = "rerank",
            !.message = "Processing rerank..."]
    [] tok = "node_final" ->
         [EmptyObject EXCEPT !.type = "node_complete",
            !.node = "finalize_response", !.message = "Completed finalize",
            !.data = [NoData EXCEPT !.kind = "fr", !.fr = FinalResult("rag")]]
    [] tok = "node_silent" ->
         [EmptyObject EXCEPT !.type = "node_complete", !.node = "agent"]
    [] tok = "node_inherited" ->
         [EmptyObject EXCEPT !.type = "node_complete", !.node = "toString",
            !.message = "Processing toString..."]
    [] tok = "node_flattened" ->
         [EmptyObject EXCEPT !.type = "node_complete",
            !.node = "finalize_response", !.message = "Completed finalize",
            !.internal_analysis = FinalResult("route").internal_analysis,
            !.final_response = FinalResult("route").final_response]
    [] tok = "legacy_content" ->
         [EmptyObject EXCEPT !.type = "final_response", !.content = "L1",
            !.citations = [present |-> TRUE, items |-> <<"s5">>]]
    [] tok = "legacy_data" ->
         [EmptyObject EXCEPT !.type = "final_response",
            !.data = [NoData EXCEPT !.kind = "str", !.str = "L2"],
            !.content = "L3"]
    [] tok = "legacy_empty" ->
         [EmptyObject EXCEPT !.type = "final_response"]
    [] tok = "wrap_nodata" ->
         [EmptyObject EXCEPT !.type = "final_result", !.content = "L4"]
    [] tok = "generic" ->
         [EmptyObject EXCEPT !.response =
            [present |-> TRUE, data |-> "G1",
             citations |-> [present |-> TRUE, items |-> <<"s6">>]]]
    [] tok = "generic_nocit" ->
         [EmptyObject EXCEPT !.response =
            [present |-> TRUE, data |-> "G2", citations |-> NoCitations]]
    [] tok = "unknown" -> [EmptyObject EXCEPT !.type = "heartbeat"]

OtherJsonTexts ==
  {"node_classify", "node_search", "node_custom", "node_final", "node_silent",
   "node_inherited", "node_flattened", "legacy_content", "legacy_data", "legacy_empty", "wrap_nodata",
   "generic", "generic_nocit", "unknown"}
FlatTexts == {FlatText(id) : id \in FinalResultIds}
WrapTexts == {WrapText(id) : id \in FinalResultIds}
JsonTexts == FlatTexts \cup WrapTexts \cup OtherJsonTexts

\* ------------------------------------------------------------- tokens
NL == "\n"
DataMarker == "data: "
Blank == " "
DoneText == "[DONE]"
BadJson == "{bad"
Comment == ": ping"

\* JSON.parse(data): data is a token sequence.  It parses exactly when it is
\* one complete JSON text; anything else (a malformed text, two texts side
\* by side, the sentinel, the marker) throws.
JSONParse(data) ==
  IF Len(data) = 1 /\ data[1] \in JsonTexts
  THEN [ok |-> TRUE,
        value |->
          IF data[1] \in FlatTexts
          THEN Flattened(FinalResult(
                 CHOOSE id \in FinalResultIds : FlatText(id) = data[1]))
          ELSE IF data[1] \in WrapTexts
          THEN Wrapped(FinalResult(
                 CHOOSE id \in FinalResultIds : WrapText(id) = data[1]))
          ELSE OtherJson(data[1])]
  ELSE [ok |-> FALSE, value |-> EmptyObject]

\* String.prototype.trim on a token sequence: drop the blanks at both ends.
RECURSIVE TrimStart(_)
TrimStart(s) ==
  IF s # <<>> /\ Head(s) = Blank THEN TrimStart(Tail(s)) ELSE s
RECURSIVE TrimEnd(_)
TrimEnd(s) ==
  IF s # <<>> /\ s[Len(s)] = Blank
  THEN TrimEnd(SubSeq(s, 1, Len(s) - 1)) ELSE s
Trim(s) == TrimEnd(TrimStart(s))

\* line.startsWith('data: ') and line.slice(6)
StartsWithData(line) == line # <<>> /\ Head(line) = DataMarker
Slice6(line) == Tail(line)

\* buffer.split('\n'): the segments between newlines; the last segment is
\* what follows the last newline (empty when the text ends in a newline).
RECURSIVE SplitNL(_)
SplitNL(s) ==
  IF \A i \in 1..Len(s) : s[i] # NL
  THEN <<s>>
  ELSE LET i == CHOOSE j \in 1..Len(s) :
                  s[j] = NL /\ \A k \in 1..(j - 1) : s[k] # NL
       IN <<SubSeq(s, 1, i - 1)>> \o SplitNL(SubSeq(s, i + 1, Len(s)))

\* ------------------------------------------------- status phrases
\* getFriendlyStatusMessage: statusMap[node] when it is truthy, otherwise
\* the message with a leading "Processing " removed and "Completed " turned
\* into "Finished " (the regular expressions applied to the messages the
\* server sends).  statusMap is an object literal: its own keys give the
\* phrases, the key "toString" is found on Object.prototype and gives that
\* function (named here by its text), any other key gives undefined ("").
StatusMapNodes == {"classify", "agent", "document_search", "finalize_response"}
FunctionToString == "function toString() { [native code] }"
statusMap(node) ==
  CASE node = "classify" -> "Understanding your question..."
    [] node = "agent" -> "Preparing response..."
    [] node = "document_search" -> "Searching knowledge base..."
    [] node = "finalize_response" -> "Finalizing answer..."
    [] node = "toString" -> FunctionToString
    [] OTHER -> ""
CleanMessage(message) ==
  CASE message = "Processing rerank..." -> "rerank..."
    [] message = "Completed classify" -> "Finished classify"
    [] message = "Completed document_search" -> "Finished document_search"
    [] message = "Completed finalize" -> "Finished finalize"
    [] message = "Processing toString..." -> "toString..."
    [] OTHER -> message
getFriendlyStatusMessage(node, message) ==
  IF statusMap(node) # "" THEN statusMap(node) ELSE CleanMessage(message)

\* setCurrentStatus(value): React takes a function value as an updater and
\* calls it with the previous state; Object.prototype.toString called
\* without a receiver returns "[object Undefined]".
setCurrentStatus(prev, value) ==
  IF value = FunctionToString THEN "[object Undefined]" ELSE value

\* ------------------------------------------------------------ state
VARIABLES
  \* React state of Home
  messages,          \* sequence of [role, content]
  isLoading,
  currentStatus,
  citations,         \* sequence of sources
  internalAnalysis,  \* [present, classification]; present = FALSE is null
  showInternalView,
  rateLimitTimer,    \* 0 is null, otherwise the id of a watchdog timer
  chatStarted,
  mode,              \* "chat" or "bulk"
  \* one invocation of handleSendMessage per turn
  pc,                \* "idle", "fetch" (awaiting fetch), "read" (awaiting
                     \* reader.read()), "done"
  capLoading,        \* isLoading as the invocation's closure sees it
  capTimer,          \* rateLimitTimer as the invocation's closure sees it
  buffer,            \* the read loop's pending text
  \* network
  wire,              \* what the server has still to send on the turn's stream
  sent,              \* the whole stream of the turn
  \* timers and time
  watchdog,          \* turns whose 15 s timer is pending
  timeout,           \* turns whose 5 min abort timer is pending
  age,               \* per turn: 0 = started less than 15 s ago,
                     \* 1 = 15 s passed, 2 = 5 min passed
  \* history, per turn
  appended,          \* assistant messages appended by the read loop
  advisories,        \* advisory messages appended by the watchdog
  errors,            \* sequence of error messages appended by the catch block
  recognized,        \* JSON texts the read loop took as terminal payloads
  sawDone,           \* the read loop has met the [DONE] line
  afterDone,         \* lines given to JSON.parse after the [DONE] line
  midSplit,          \* a chunk of the turn has ended in the middle of a line
  failure,           \* the error the turn's catch block caught, if any
  \* React state of Home, bulk mode
  uploadedFile,      \* the accepted file; NoFile is null
  ticketData,        \* sequence of tickets
  processedCount,
  totalCount,
  bulkResults,       \* sequence of parsed results
  \* bulk runs and their history
  run,               \* per run: one invocation of startBulkProcessing
  alert,             \* the text of the last window.alert, "" if none
  lastFile,          \* the file of the last step of handleFileUpload
  reading,           \* the files whose file.text() is pending, in the
                     \* order of their change events
  \* session
  sessionId,         \* "" until the mount effect has generated the id
  sessionSent,       \* per turn: the session_id of the turn's request body
  toggled,           \* the toggle was pressed since the last turn started
  \* the server
  pipe               \* the Pipeline Orchestrator's run for one query

vars ==
  <<messages, isLoading, currentStatus, citations, internalAnalysis,
    showInternalView, rateLimitTimer, chatStarted, mode, pc, capLoading,
    capTimer, buffer, wire, sent, watchdog, timeout, age, appended,
    advisories, errors, recognized, sawDone, afterDone, midSplit, failure,
    uploadedFile, ticketData, processedCount, totalCount, bulkResults, run,
    alert, lastFile, reading,
                 sessionId, sessionSent, toggled, pipe>>

\* The state only bulk mode writes.
bulkVars ==
  <<uploadedFile, ticketData, processedCount, totalCount, bulkResults, run,
    alert, lastFile, reading>>

\* The state bulk mode leaves alone: what handleSendMessage, its timers, the
\* session effect, the toggle and the server's pipeline write.
turnVars ==
  <<citations, internalAnalysis, showInternalView, rateLimitTimer, pc,
    capLoading, capTimer, buffer, wire, sent, watchdog, timeout, age,
    appended, advisories, errors, recognized, sawDone, afterDone, midSplit,
    failure,
                 sessionId, sessionSent, toggled, pipe>>

NoInternalAnalysis == [present |-> FALSE, classification |-> ""]

\* The part of the state one step of a turn's read loop can change.
View(t) ==
  [messages |-> messages, isLoading |-> isLoading,
   currentStatus |-> currentStatus, citations |-> citations,
   internalAnalysis |-> internalAnalysis, rateLimitTimer |-> rateLimitTimer,
   watchdog |-> watchdog, appended |-> appended[t],
   recognized |-> recognized[t], sawDone |-> sawDone[t],
   afterDone |-> afterDone[t]]

SetView(t, v) ==
  /\ messages' = v.messages
  /\ isLoading' = v.isLoading
  /\ currentStatus' = v.currentStatus
  /\ citations' = v.citations
  /\ internalAnalysis' = v.internalAnalysis
  /\ rateLimitTimer' = v.rateLimitTimer
  /\ watchdog' = v.watchdog
  /\ appended' = [appended EXCEPT ![t] = v.appended]
  /\ recognized' = [recognized EXCEPT ![t] = v.recognized]
  /\ sawDone' = [sawDone EXCEPT ![t] = v.sawDone]
  /\ afterDone' = [afterDone EXCEPT ![t] = v.afterDone]

\* ------------------------------------------------- the stream reducer
\* if (rateLimitTimer) { clearTimeout(rateLimitTimer); setRateLimitTimer(null) }
\* with the rateLimitTimer of the invocation's closure.
ClearRateLimitTimer(v, cap) ==
  IF cap # 0
  THEN [v EXCEPT !.watchdog = @ \ {cap}, !.rateLimitTimer = 0]
  ELSE v

AssistantMessage(content) == [role |-> "assistant", content |-> content]
UserMessage(content) == [role |-> "user", content |-> content]

\* setMessages(prev => [...prev, assistantMessage]) in the read loop
AppendAnswer(v, content) ==
  [v EXCEPT !.messages = Append(@, AssistantMessage(content)),
            !.appended = @ + 1]

\* DeliverContent without the test of finalContent.
DeliverContentAlways(v, finalContent, responseSources) ==
  LET w == AppendAnswer(v, finalContent)
  IN IF Len(responseSources) > 0
     THEN [w EXCEPT !.citations = responseSources]
     ELSE w

\* if (finalContent) { append; if (responseSources.length > 0) setCitations }
DeliverContent(v, finalContent, responseSources) ==
  IF finalContent # ""
  THEN LET w == AppendAnswer(v, finalContent)
       IN IF Len(responseSources) > 0
          THEN [w EXCEPT !.citations = responseSources]
          ELSE w
  ELSE v

\* Content and sources of a flattened payload: chosen by response_type.
FlatContent(fr) ==
  IF fr.response_type = "rag_answer" /\ fr.rag_response.present
  THEN [content |-> fr.rag_response.answer,
        sources |-> fr.rag_response.sources]
  ELSE IF fr.response_type = "routing_message" /\ fr.routing_response.present
  THEN [content |-> fr.routing_response.message, sources |-> <<>>]
  ELSE [content |-> "", sources |-> <<>>]

\* Content and sources of the data of a final_result payload: the RAG answer
\* when it is non-empty, else the routing message.
NestedContent(responseData) ==
  IF responseData.final_response.rag_response.answer # ""
  THEN [content |-> responseData.final_response.rag_response.answer,
        sources |-> responseData.final_response.rag_response.sources]
  ELSE IF responseData.final_response.routing_response.message # ""
  THEN [content |-> responseData.final_response.routing_response.message,
        sources |-> <<>>]
  ELSE [content |-> "", sources |-> <<>>]

\* if (responseData.internal_analysis) setInternalAnalysis({classification})
StoreNestedAnalysis(v, responseData) ==
  IF responseData.internal_analysis.present
  THEN [v EXCEPT !.internalAnalysis =
          [present |-> TRUE,
           classification |-> responseData.internal_analysis.classification]]
  ELSE v

\* Truthiness of parsed.data: an object, or a non-empty string.
DataTruthy(d) == d.kind \in {"cls", "fr"} \/ (d.kind = "str" /\ d.str # "")

\* parsed.data || parsed.content || parsed.response?.data
LegacyContent(parsed) ==
  IF parsed.data.kind = "str" /\ parsed.data.str # "" THEN parsed.data.str
  ELSE IF parsed.data.kind \in {"cls", "fr"} THEN "[object Object]"
  ELSE IF parsed.content # "" THEN parsed.content
  ELSE parsed.response.data

\* parsed.citations || parsed.response?.citations, set when present
LegacyCitations(v, parsed) ==
  IF parsed.citations.present
  THEN [v EXCEPT !.citations = parsed.citations.items]
  ELSE IF parsed.response.citations.present
  THEN [v EXCEPT !.citations = parsed.response.citations.items]
  ELSE v

\* setCurrentStatus(""); setIsLoading(false); clear the rate limit timer
EndLoading(v, cap) ==
  ClearRateLimitTimer([v EXCEPT !.currentStatus = "", !.isLoading = FALSE],
                      cap)

Recognize(v, text) == [v EXCEPT !.recognized = Append(@, text)]

\* IsFlattened with a FinalResult in the data field taken as flattened too.
IsFlattenedOrFinalData(parsed) ==
  \/ parsed.internal_analysis.present /\ parsed.final_response.present
  \/ parsed.data.kind = "fr"

\* if (parsed.internal_analysis && parsed.final_response)
IsFlattened(parsed) ==
  parsed.internal_analysis.present /\ parsed.final_response.present

\* The body of the try block of the read loop for one parsed object.
HandleParsed(v, text, parsed, cap) ==
  IF IsFlattened(parsed)
  THEN \* flattened ChatbotResponse
       LET a == [EndLoading(Recognize(v, text), cap) EXCEPT
                   !.internalAnalysis =
                     [present |-> TRUE,
                      classification |->
                        parsed.internal_analysis.classification]]
           c == FlatContent(parsed.final_response)
       IN DeliverContent(a, c.content, c.sources)
  ELSE IF parsed.type = "node_complete"
  THEN LET a == IF parsed.message # ""
                THEN [v EXCEPT !.currentStatus =
                        setCurrentStatus(@,
                          getFriendlyStatusMessage(parsed.node,
                                                   parsed.message))]
                ELSE v
       IN IF parsed.node = "classify" /\ DataTruthy(parsed.data)
          THEN [a EXCEPT !.internalAnalysis =
                  [present |-> TRUE,
                   classification |->
                     IF parsed.data.kind = "cls" THEN parsed.data.cls
                     ELSE IF parsed.data.kind = "str" THEN parsed.data.str
                     ELSE "[object Object]"]]
          ELSE a
  ELSE IF parsed.type \in {"final_response", "final_result"}
  THEN LET a == EndLoading(Recognize(v, text), cap)
           nested == parsed.type = "final_result" /\ DataTruthy(parsed.data)
           b == IF nested /\ parsed.data.kind = "fr"
                THEN StoreNestedAnalysis(a, parsed.data.fr)
                ELSE a
           c == IF nested
                THEN IF parsed.data.kind = "fr"
                     THEN NestedContent(parsed.data.fr)
                     ELSE [content |-> "", sources |-> <<>>]
                ELSE [content |-> LegacyContent(parsed), sources |-> <<>>]
       IN LegacyCitations(DeliverContent(b, c.content, c.sources), parsed)
  ELSE IF parsed.response.present /\ parsed.response.data # ""
  THEN LET a == AppendAnswer(EndLoading(Recognize(v, text), cap),
                             parsed.response.data)
       IN IF parsed.response.citations.present
          THEN [a EXCEPT !.citations = parsed.response.citations.items]
          ELSE a
  ELSE v

\* One line of the for loop over the complete lines of a chunk.
ProcessLine(v, line, cap) ==
  IF ~StartsWithData(line) THEN v
  ELSE LET data == Trim(Slice6(line))
       IN IF data = <<DoneText>>
          THEN ClearRateLimitTimer(
                 [v EXCEPT !.isLoading = FALSE, !.currentStatus = "",
                           !.sawDone = TRUE], cap)
          ELSE IF data = <<>> THEN v
          ELSE LET r == JSONParse(data)
                   w == IF v.sawDone THEN [v EXCEPT !.afterDone = @ + 1]
                        ELSE v
               IN IF r.ok THEN HandleParsed(w, data[1], r.value, cap)
                  ELSE w

\* ProcessLines with a parse error that ends the loop over the lines.
RECURSIVE ProcessLinesUntilError(_, _, _)
ProcessLinesUntilError(v, lines, cap) ==
  IF lines = <<>> THEN v
  ELSE LET line == Head(lines)
           data == IF StartsWithData(line) THEN Trim(Slice6(line)) ELSE <<>>
       IN IF data # <<>> /\ data # <<DoneText>> /\ ~JSONParse(data).ok
          THEN v
          ELSE ProcessLinesUntilError(ProcessLine(v, line, cap), Tail(lines),
                                      cap)

RECURSIVE ProcessLines(_, _, _)
ProcessLines(v, lines, cap) ==
  IF lines = <<>> THEN v
  ELSE ProcessLines(ProcessLine(v, Head(lines), cap), Tail(lines), cap)

\* buffer += chunk; lines = buffer.split('\n'); buffer = lines.pop() || ''
HeldBack(buf, chunk) ==
  LET lines == SplitNL(buf \o chunk) IN lines[Len(lines)]
\* CompleteLines as processBatch computes them: chunk.split('\n') without
\* the pending buffer.
CompleteLinesOfChunk(buf, chunk) ==
  LET lines == SplitNL(chunk) IN SubSeq(lines, 1, Len(lines) - 1)
CompleteLines(buf, chunk) ==
  LET lines == SplitNL(buf \o chunk) IN SubSeq(lines, 1, Len(lines) - 1)

\* The read loop's step for one chunk: the view after its complete lines.
ProcessChunk(v, buf, chunk, cap) ==
  ProcessLines(v, CompleteLines(buf, chunk), cap)

\* The read loop's step for done = true: the remaining buffer is processed
\* (only a final_result payload is handled there), then the closure's
\* isLoading decides whether "Processing complete" is set.
FlushBuffer(v, buf, cap) ==
  LET line == Trim(buf)
  IN IF line # <<>> /\ StartsWithData(line)
     THEN LET data == Trim(Slice6(line))
          IN IF data # <<>> /\ data # <<DoneText>>
             THEN LET r == JSONParse(data)
                      w == IF v.sawDone THEN [v EXCEPT !.afterDone = @ + 1]
                           ELSE v
                  IN IF r.ok /\ r.value.type = "final_result"
                        /\ DataTruthy(r.value.data)
                     THEN LET a == Recognize(w, data[1])
                              b == IF r.value.data.kind = "fr"
                                   THEN StoreNestedAnalysis(a, r.value.data.fr)
                                   ELSE a
                              c == IF r.value.data.kind = "fr"
                                   THEN NestedContent(r.value.data.fr)
                                   ELSE [content |-> "", sources |-> <<>>]
                          IN DeliverContent(b, c.content, c.sources)
                     ELSE w
             ELSE v
     ELSE v

StreamEnd(v, buf, cap, capIsLoading) ==
  LET a == FlushBuffer(v, buf, cap)
  IN IF capIsLoading
     THEN ClearRateLimitTimer(
            [a EXCEPT !.currentStatus = "Processing complete",
                      !.isLoading = FALSE], cap)
     ELSE a

\* Finally without its setCurrentStatus("").
FinallyLoadingOnly(v, cap) ==
  ClearRateLimitTimer([v EXCEPT !.isLoading = FALSE], cap)
\* finally { setIsLoading(false); setCurrentStatus(""); clear the timer }
Finally(v, cap) ==
  ClearRateLimitTimer([v EXCEPT !.isLoading = FALSE, !.currentStatus = ""],
                      cap)

\* ------------------------------------------------------ the streams
\* A frame is a line followed by the blank line that ends it.
Frame(line) == line \o <<NL, NL>>

RECURSIVE Framed(_, _)
Framed(lines, n) ==
  IF n = 0 THEN {<<>>}
  ELSE {<<>>} \cup {Frame(l) \o s : l \in lines, s \in Framed(lines, n - 1)}

\* The streams of at most n frames; the last line may lack its newline.
Streams(lines, n) ==
  Framed(lines, n)
    \cup (IF n = 0 THEN {}
          ELSE {s \o l : s \in Framed(lines, n - 1), l \in lines})

DataLine(text) == <<DataMarker, text>>

\* The lines the server of SpecReducer sends.
ReducerLines ==
  {DataLine(x) : x \in {"flat_rag", "flat_none", "node_classify",
                        "legacy_content", "generic", DoneText, BadJson}}
    \cup {<<DataMarker, Blank, "wrap_route", Blank>>}
ReducerStreams == Streams(ReducerLines, MaxFrames)

\* The streams the server of Spec sends.
TurnStreams ==
  {Frame(DataLine("flat_rag")),
   Frame(DataLine("node_classify")) \o Frame(DataLine(DoneText))
     \o Frame(DataLine("wrap_route"))}

\* ---------------------------------------------------------- messages
\* The folded hands sign U+1F64F that ends the advisory text, written as the
\* escape sequence that denotes it in a string literal of the source.
FoldedHands == "\\uD83D\\uDE4F"
RateLimitMessage == "As we are using free tier of Gemini API in backend, the request got rate limited, please try after 60 seconds " \o FoldedHands
TimeoutMessage == "Request timed out. Please try again."
ConnectMessage == "Unable to connect to the server. Please check if the backend is running."
ServerErrorMessage == "Server error: HTTP 500: Internal Server Error"
GenericErrorMessage == "Sorry, something went wrong."

\* The errors that reach the catch block.  fetch rejects with a TypeError
\* whose message is the browser's: "Failed to fetch" in Chromium,
\* "NetworkError when attempting to fetch resource." in Firefox, "Load
\* failed" in Safari.  An abort rejects the pending fetch or read with an
\* AbortError; a dropped connection rejects the pending read.
NoError == [name |-> "", message |-> ""]
AbortError == [name |-> "AbortError", message |-> "The user aborted a request."]
HttpError == [name |-> "Error", message |-> "HTTP 500: Internal Server Error"]
FailedToFetch == [name |-> "TypeError", message |-> "Failed to fetch"]
NetworkError ==
  [name |-> "TypeError",
   message |-> "NetworkError when attempting to fetch resource."]
LoadFailed == [name |-> "TypeError", message |-> "Load failed"]
ReadFailure == [name |-> "TypeError", message |-> "network error"]
FetchRejections == {FailedToFetch, NetworkError, LoadFailed}

\* error.message.includes(needle), for the messages above.
Includes(message, needle) ==
  \/ needle = "Failed to fetch" /\ message = FailedToFetch.message
  \/ needle = "HTTP" /\ message = HttpError.message

\* The catch block's choice of the message from the error.
errorMessage(error) ==
  IF error.name = "AbortError" THEN TimeoutMessage
  ELSE IF Includes(error.message, "Failed to fetch") THEN ConnectMessage
  ELSE IF Includes(error.message, "HTTP")
  THEN "Server error: " \o error.message
  ELSE GenericErrorMessage

\* ------------------------------------------------------- bulk mode
\* A ticket is {id, body}; an absent or falsy id is 0, an absent or empty
\* body is "".
Ticket(n) == [id |-> n, body |-> "body"]
TicketList(n) == [k \in 1..n |-> Ticket(k)]

\* A file: its name, its size in bytes and its text.  The text is named by
\* its kind and, for an array, by the elements it denotes.
maxSize == 2097152
NoFile == [name |-> "", size |-> 0, text |-> [kind |-> "", items |-> <<>>]]
TicketFile(items) ==
  [name |-> "tickets.json", size |-> 1024,
   text |-> [kind |-> "array", items |-> items]]
ValidFiles(counts) == {TicketFile(TicketList(n)) : n \in counts}
SomeTickets == TicketList(2)
InvalidFiles ==
  {[TicketFile(SomeTickets) EXCEPT !.name = "tickets.csv"],
   [TicketFile(SomeTickets) EXCEPT !.name = "tickets.JSON"],
   [TicketFile(SomeTickets) EXCEPT !.size = maxSize + 1],
   [TicketFile(<<>>) EXCEPT !.text.kind = "malformed"],
   [TicketFile(<<>>) EXCEPT !.text.kind = "object"],
   TicketFile([SomeTickets EXCEPT ![2].id = 0]),
   TicketFile([SomeTickets EXCEPT ![1].body = ""])}

\* file.name.endsWith('.json')
EndsWithJson(name) == name = "tickets.json"

\* JSON.parse(text) of a file's text
JSONParseFile(text) ==
  [ok |-> text.kind \in {"array", "object"},
   isArray |-> text.kind = "array",
   items |-> text.items]

\* data.filter(ticket => !ticket.id || !ticket.body)
invalidTickets(data) ==
  {k \in 1..Len(data) : data[k].id = 0 \/ data[k].body = ""}

\* ValidateFile without the check of the file's size.
ValidateAnySize(file) ==
  IF ~EndsWithJson(file.name) THEN "Please upload a JSON file" ELSE ""
\* The checks of handleFileUpload before it reads the file: the text of the
\* alert that rejects the file, "" when the file is read.
ValidateFile(file) ==
  IF ~EndsWithJson(file.name) THEN "Please upload a JSON file"
  ELSE IF file.size > maxSize THEN "File size must be less than 2MB"
  ELSE ""
\* The checks of handleFileUpload on the text it has read: the text of the
\* alert that rejects the file, "" when the file is accepted.
ValidateText(file) ==
  LET r == JSONParseFile(file.text)
  IN IF ~r.ok THEN "Invalid JSON file format"
     ELSE IF ~r.isArray THEN "JSON file must contain an array of tickets"
     ELSE IF invalidTickets(r.items) # {}
     THEN ToString(Cardinality(invalidTickets(r.items)))
            \o " tickets are missing required fields (id, body)"
     ELSE ""

\* data.slice(from, to): the elements at the 0-based indices from..to-1.
Slice(data, from, to) ==
  SubSeq(data, from + 1, IF to < Len(data) THEN to ELSE Len(data))

\* for (let i = 0; i < data.length; i += batchSize)
\*   batches.push(data.slice(i, i + batchSize))
batchSize == 5
RECURSIVE BatchesFromNoRemainder(_, _)
BatchesFromNoRemainder(data, i) ==
  IF i + batchSize <= Len(data)
  THEN <<Slice(data, i, i + batchSize)>>
         \o BatchesFromNoRemainder(data, i + batchSize)
  ELSE <<>>
RECURSIVE BatchesFrom(_, _)
BatchesFrom(data, i) ==
  IF i < Len(data)
  THEN <<Slice(data, i, i + batchSize)>> \o BatchesFrom(data, i + batchSize)
  ELSE <<>>
Batches(data) == BatchesFrom(data, 0)

\* The JSON texts of a bulk response: the result of one ticket, and a
\* summary event of the batch.
ResultText(id) == "result_" \o ToString(id)
SummaryText == "batch_summary"
BulkTexts == {ResultText(id) : id \in 1..(MaxTickets + 1)} \cup {SummaryText}
NoResult == [id |-> 0, classified |-> FALSE]
JSONParseResult(data) ==
  IF Len(data) = 1 /\ data[1] \in BulkTexts
  THEN [ok |-> TRUE,
        value |->
          IF data[1] = SummaryText THEN NoResult
          ELSE [id |-> CHOOSE id \in 1..(MaxTickets + 1) :
                         ResultText(id) = data[1],
                classified |-> TRUE]]
  ELSE [ok |-> FALSE, value |-> NoResult]

\* One line of processBatch's loop over chunk.split('\n').
BatchLine(results, line) ==
  IF ~StartsWithData(line) THEN results
  ELSE LET data == Trim(Slice6(line))
       IN IF data = <<>> THEN results
          ELSE LET r == JSONParseResult(data)
               IN IF r.ok THEN Append(results, r.value) ELSE results

RECURSIVE BatchLines(_, _)
BatchLines(results, lines) ==
  IF lines = <<>> THEN results
  ELSE BatchLines(BatchLine(results, Head(lines)), Tail(lines))

\* processBatch's step for one chunk: every segment of the chunk is a line.
BatchChunk(results, chunk) == BatchLines(results, SplitNL(chunk))

\* The response streams of the bulk endpoint for a batch: one result per
\* ticket; the same followed by a summary event; the same with a malformed
\* line first; no event at all.
RECURSIVE PerTicket(_)
PerTicket(batch) ==
  IF batch = <<>> THEN <<>>
  ELSE Frame(DataLine(ResultText(Head(batch).id))) \o PerTicket(Tail(batch))
BatchStreams(batch) ==
  {PerTicket(batch),
   PerTicket(batch) \o Frame(DataLine(SummaryText)),
   Frame(DataLine(BadJson)) \o PerTicket(batch),
   <<>>}

\* One invocation of startBulkProcessing.
\*   pc: "idle"; "scheduled" (the 500 ms timer of the upload is pending);
\*       "fetch" (processBatch awaits fetch); "read" (processBatch awaits
\*       reader.read()); "errorDelay" (awaiting the 1000 ms after a
\*       failed batch); "pause" (awaiting the 200 ms between batches); "done"
\*   data, i: the argument and the index of the loop over the batches
\*   results: the results array of the processBatch call in progress
\*   wire: what the server has still to send for the batch
\*   requests: the batch indices requested so far, in order
\*   outcome: per finished batch, results.length, or -1 for an error
\*   paused: the 200 ms delays awaited so far
Runs == 1..MaxRuns
NoRun ==
  [pc |-> "idle", data |-> <<>>, i |-> 0, results |-> <<>>, wire |-> <<>>,
   requests |-> <<>>, outcome |-> <<>>, paused |-> 0]
NextRun == Cardinality({r \in Runs : run[r].pc # "idle"}) + 1

\* ------------------------------------------------------------- Init
\* The Pipeline Orchestrator before a query.
NoPipe ==
  [stage |-> "Start",
   classification |-> [topic_tags |-> {}, sentiment |-> "", priority |-> ""],
   outcome |-> "", failed |-> FALSE,
   draft |-> [response_type |-> "", rag_response |-> FALSE,
              routing_response |-> FALSE],
   stream |-> <<>>,
   previous |->
     [classification |-> [topic_tags |-> {}, sentiment |-> "", priority |-> ""],
      outcome |-> ""]]

Init ==
  /\ messages = <<>>
  /\ isLoading = FALSE
  /\ currentStatus = ""
  /\ citations = <<>>
  /\ internalAnalysis = NoInternalAnalysis
  /\ showInternalView = FALSE
  /\ rateLimitTimer = 0
  /\ chatStarted = FALSE
  /\ mode = "chat"
  /\ pc = [t \in Turns |-> "idle"]
  /\ capLoading = [t \in Turns |-> FALSE]
  /\ capTimer = [t \in Turns |-> 0]
  /\ buffer = [t \in Turns |-> <<>>]
  /\ wire = [t \in Turns |-> <<>>]
  /\ sent = [t \in Turns |-> <<>>]
  /\ watchdog = {}
  /\ timeout = {}
  /\ age = [t \in Turns |-> 0]
  /\ appended = [t \in Turns |-> 0]
  /\ advisories = [t \in Turns |-> 0]
  /\ errors = [t \in Turns |-> <<>>]
  /\ recognized = [t \in Turns |-> <<>>]
  /\ sawDone = [t \in Turns |-> FALSE]
  /\ afterDone = [t \in Turns |-> 0]
  /\ midSplit = [t \in Turns |-> FALSE]
  /\ failure = [t \in Turns |-> NoError]
  /\ uploadedFile = NoFile
  /\ ticketData = <<>>
  /\ processedCount = 0
  /\ totalCount = 0
  /\ bulkResults = <<>>
  /\ run = [r \in Runs |-> NoRun]
  /\ alert = ""
  /\ lastFile = NoFile
  /\ reading = <<>>
  /\ sessionId = ""
  /\ sessionSent = [t \in Turns |-> ""]
  /\ toggled = FALSE
  /\ pipe = NoPipe

\* ---------------------------------------------------------- session
\* generateSessionId: the values crypto.randomUUID() can return.
SessionIds == {"uuid-1", "uuid-2"}
OneSessionId == {"uuid-1"}

\* useEffect(() => { if (!sessionId) setSessionId(generateSessionId()) },
\* [sessionId]): runs after the first render.
SessionEffect(ids) ==
  /\ sessionId = ""
  /\ \E id \in ids : sessionId' = id
  /\ UNCHANGED <<messages, isLoading, currentStatus, chatStarted, mode>>
  /\ UNCHANGED <<citations, internalAnalysis, showInternalView,
                 rateLimitTimer, pc, capLoading, capTimer, buffer, wire,
                 sent, watchdog, timeout, age, appended, advisories, errors,
                 recognized, sawDone, afterDone, midSplit, failure,
                 sessionSent, toggled, pipe>>
  /\ UNCHANGED bulkVars

\* The session effect has run and the page is rendered with the generated
\* id.  No handler tests it; the specifications that follow one turn or the
\* bulk runs let the user act on the mounted page only.
Mounted == sessionId # ""

\* ------------------------------------------------ handleSendMessage
\* The internal view left as it is when a turn starts.
InternalViewKept(shown) == shown
\* setShowInternalView(false) at the start of a turn
InternalViewAtStart(shown) == FALSE

Started(t) == pc[t] # "idle"
NextTurn == Cardinality({t \in Turns : Started(t)}) + 1

\* The call of handleSendMessage up to its await of fetch: the user message,
\* the loading state, the watchdog timer, the abort timer and the request.
handleSendMessage(t) ==
  /\ t \in Turns
  /\ t = NextTurn
  /\ messages' = Append(messages, UserMessage("query"))
  /\ chatStarted' = TRUE
  /\ isLoading' = TRUE
  /\ currentStatus' = "Understanding your question..."
  /\ citations' = <<>>
  /\ internalAnalysis' = NoInternalAnalysis
  /\ showInternalView' = InternalViewAtStart(showInternalView)
  /\ toggled' = FALSE
  /\ sessionSent' = [sessionSent EXCEPT ![t] = sessionId]
  /\ UNCHANGED <<sessionId, pipe>>
  /\ watchdog' = (watchdog \ {rateLimitTimer}) \cup {t}
  /\ rateLimitTimer' = t
  /\ timeout' = timeout \cup {t}
  /\ pc' = [pc EXCEPT ![t] = "fetch"]
  /\ capLoading' = [capLoading EXCEPT ![t] = isLoading]
  /\ capTimer' = [capTimer EXCEPT ![t] = rateLimitTimer]
  /\ UNCHANGED <<mode, buffer, wire, sent, age, appended, advisories, errors,
                 recognized, sawDone, afterDone,
                 midSplit, failure>>
  /\ UNCHANGED bulkVars

\* The Send button and the Enter key of the input: both need !isLoading.
SendByInput(t) ==
  /\ mode = "chat"
  /\ ~isLoading
  /\ handleSendMessage(t)

\* A question card: shown in chat mode while the chat has not started.
SendByQuestionCard(t) ==
  /\ mode = "chat"
  /\ ~chatStarted
  /\ handleSendMessage(t)

\* catch (error) { clear the timer; append errorMessage } finally { ... }
CatchFinally(t, error) ==
  /\ SetView(t, Finally(
        [ClearRateLimitTimer(View(t), capTimer[t]) EXCEPT
           !.messages = Append(@, AssistantMessage(errorMessage(error)))],
        capTimer[t]))
  /\ errors' = [errors EXCEPT ![t] = Append(@, errorMessage(error))]
  /\ failure' = [failure EXCEPT ![t] = error]
  /\ pc' = [pc EXCEPT ![t] = "done"]

\* fetch resolves with an ok response: the abort timer is cleared, the
\* closure's rate limit timer is cleared, the reader is taken.
FetchResolveOk(t, streams) ==
  /\ pc[t] = "fetch"
  /\ \E s \in streams :
       /\ wire' = [wire EXCEPT ![t] = s]
       /\ sent' = [sent EXCEPT ![t] = s]
  /\ timeout' = timeout \ {t}
  /\ SetView(t, ClearRateLimitTimer(View(t), capTimer[t]))
  /\ buffer' = [buffer EXCEPT ![t] = <<>>]
  /\ pc' = [pc EXCEPT ![t] = "read"]
  /\ UNCHANGED <<showInternalView, chatStarted, mode, capLoading, capTimer,
                 age, advisories, errors,
                 midSplit, failure,
                 sessionId, sessionSent, toggled, pipe>>
  /\ UNCHANGED bulkVars

\* fetch resolves with a non-success status: the timers are cleared as
\* above, then the thrown Error("HTTP ...") reaches the catch block.
FetchResolveNotOk(t) ==
  /\ pc[t] = "fetch"
  /\ timeout' = timeout \ {t}
  /\ CatchFinally(t, HttpError)
  /\ UNCHANGED <<showInternalView, chatStarted, mode, capLoading, capTimer,
                 buffer, wire, sent, age, advisories,
                 midSplit,
                 sessionId, sessionSent, toggled, pipe>>
  /\ UNCHANGED bulkVars

\* fetch rejects (TypeError: Failed to fetch): the catch block runs; the
\* abort timer was created inside the try block and is not cleared.
FetchReject(t) ==
  /\ pc[t] = "fetch"
  /\ \E error \in FetchRejections : CatchFinally(t, error)
  /\ UNCHANGED <<showInternalView, chatStarted, mode, capLoading, capTimer,
                 buffer, wire, sent, timeout, age, advisories,
                 midSplit,
                 sessionId, sessionSent, toggled, pipe>>
  /\ UNCHANGED bulkVars

\* The chunk lengths the network of SpecReducer can deliver: any.
AnyLength(w) == 1..Len(w)

\* The chunk lengths the network of Spec delivers: up to the end of the next
\* frame, or all that is left when no frame ends.
FrameLength(w) ==
  LET ends == {i \in 2..Len(w) : w[i - 1] = NL /\ w[i] = NL}
  IN IF w = <<>> THEN {}
     ELSE IF ends = {} THEN {Len(w)}
     ELSE {CHOOSE i \in ends : \A j \in ends : i <= j}

\* reader.read() resolves with a chunk of k tokens.
ReadChunk(t, lengths) ==
  /\ pc[t] = "read"
  /\ \E k \in lengths :
       LET chunk == SubSeq(wire[t], 1, k)
       IN /\ SetView(t, ProcessChunk(View(t), buffer[t], chunk, capTimer[t]))
          /\ buffer' = [buffer EXCEPT ![t] = HeldBack(buffer[t], chunk)]
          /\ wire' = [wire EXCEPT ![t] = SubSeq(wire[t], k + 1, Len(wire[t]))]
          /\ midSplit' = [midSplit EXCEPT ![t] =
                            @ \/ (HeldBack(buffer[t], chunk) # <<>>
                                    /\ k < Len(wire[t]))]
  /\ UNCHANGED <<showInternalView, chatStarted, mode, pc, capLoading,
                 capTimer, sent, timeout, age, advisories, errors, failure,
                 sessionId, sessionSent, toggled, pipe>>
  /\ UNCHANGED bulkVars

\* reader.read() resolves with done = true: flush, break, finally.
ReadDone(t) ==
  /\ pc[t] = "read"
  /\ wire[t] = <<>>
  /\ SetView(t, Finally(StreamEnd(View(t), buffer[t], capTimer[t],
                                  capLoading[t]), capTimer[t]))
  /\ pc' = [pc EXCEPT ![t] = "done"]
  /\ UNCHANGED <<showInternalView, chatStarted, mode, capLoading, capTimer,
                 buffer, wire, sent, timeout, age, advisories, errors,
                 midSplit, failure,
                 sessionId, sessionSent, toggled, pipe>>
  /\ UNCHANGED bulkVars

\* reader.read() rejects (the connection drops while the body is read).
ReadError(t) ==
  /\ pc[t] = "read"
  /\ CatchFinally(t, ReadFailure)
  /\ UNCHANGED <<showInternalView, chatStarted, mode, capLoading, capTimer,
                 buffer, wire, sent, timeout, age, advisories,
                 midSplit,
                 sessionId, sessionSent, toggled, pipe>>
  /\ UNCHANGED bulkVars

\* ------------------------------------------------------------ timers
\* 15 seconds have passed since turn t started.  Its watchdog callback runs
\* if the timer is still pending; the callback tests the closure's isLoading.
Elapse15(t) ==
  /\ Started(t)
  /\ age[t] = 0
  /\ \A u \in Turns : u < t => age[u] >= 1
  /\ age' = [age EXCEPT ![t] = 1]
  /\ watchdog' = watchdog \ {t}
  /\ IF t \in watchdog /\ capLoading[t]
     THEN /\ messages' = Append(messages, AssistantMessage(RateLimitMessage))
          /\ isLoading' = FALSE
          /\ currentStatus' = ""
          /\ advisories' = [advisories EXCEPT ![t] = @ + 1]
     ELSE UNCHANGED <<messages, isLoading, currentStatus, advisories>>
  /\ UNCHANGED <<citations, internalAnalysis, showInternalView,
                 rateLimitTimer, chatStarted, mode, pc, capLoading, capTimer,
                 buffer, wire, sent, timeout, appended, errors, recognized,
                 sawDone, afterDone,
                 midSplit, failure,
                 sessionId, sessionSent, toggled, pipe>>
  /\ UNCHANGED bulkVars

\* 5 minutes have passed since turn t started.  If its abort timer is still
\* pending, controller.abort() runs: a pending fetch or read rejects with an
\* AbortError, which the catch block reports as a timeout.
Elapse300(t) ==
  /\ Started(t)
  /\ age[t] = 1
  /\ \A u \in Turns : u < t => age[u] = 2
  /\ age' = [age EXCEPT ![t] = 2]
  /\ timeout' = timeout \ {t}
  /\ IF t \in timeout /\ pc[t] \in {"fetch", "read"}
     THEN CatchFinally(t, AbortError)
     ELSE UNCHANGED <<messages, isLoading, currentStatus, citations,
                      internalAnalysis, rateLimitTimer, watchdog, appended,
                      recognized, sawDone, afterDone, errors, pc,
                      failure>>
  /\ UNCHANGED <<showInternalView, chatStarted, mode, capLoading, capTimer,
                 buffer, wire, sent, advisories,
                 midSplit,
                 sessionId, sessionSent, toggled, pipe>>
  /\ UNCHANGED bulkVars

\* ------------------------------------------------------- UI handlers
\* Clear Chat: shown once the chat has started, disabled while loading.
ClearChat ==
  /\ mode = "chat"
  /\ chatStarted
  /\ ~isLoading
  /\ messages' = <<>>
  /\ chatStarted' = FALSE
  /\ currentStatus' = ""
  /\ isLoading' = FALSE
  /\ UNCHANGED <<citations, internalAnalysis, showInternalView,
                 rateLimitTimer, mode, pc, capLoading, capTimer, buffer,
                 wire, sent, watchdog, timeout, age, appended, advisories,
                 errors, recognized, sawDone, afterDone,
                 midSplit, failure,
                 sessionId, sessionSent, toggled, pipe>>
  /\ UNCHANGED bulkVars

\* The Chat Mode button of the mode toggle.
ChatModeButton ==
  /\ mode' = "chat"
  /\ chatStarted' = FALSE
  /\ currentStatus' = ""
  /\ UNCHANGED <<messages, isLoading, citations, internalAnalysis,
                 showInternalView, rateLimitTimer, pc, capLoading, capTimer,
                 buffer, wire, sent, watchdog, timeout, age, appended,
                 advisories, errors, recognized, sawDone, afterDone,
                 midSplit, failure,
                 sessionId, sessionSent, toggled, pipe>>
  /\ uploadedFile' = NoFile
  /\ ticketData' = <<>>
  /\ bulkResults' = <<>>
  /\ UNCHANGED <<processedCount, totalCount, run, alert, lastFile, reading>>

\* The Bulk Upload button of the mode toggle.
BulkModeButton ==
  /\ mode' = "bulk"
  /\ chatStarted' = FALSE
  /\ messages' = <<>>
  /\ currentStatus' = ""
  /\ UNCHANGED <<isLoading, citations, internalAnalysis, showInternalView,
                 rateLimitTimer, pc, capLoading, capTimer, buffer, wire,
                 sent, watchdog, timeout, age, appended, advisories, errors,
                 recognized, sawDone, afterDone,
                 midSplit, failure,
                 sessionId, sessionSent, toggled, pipe>>
  /\ UNCHANGED bulkVars

\* {showInternalView && internalAnalysis && (...)} in the chat view
InternalAnalysisShown ==
  mode = "chat" /\ chatStarted /\ showInternalView /\ internalAnalysis.present

\* The Show Internal Analysis / Show Final Response button.
ToggleInternalView ==
  /\ mode = "chat"
  /\ chatStarted
  /\ internalAnalysis.present
  /\ showInternalView' = ~showInternalView
  /\ toggled' = TRUE
  /\ UNCHANGED <<sessionId, sessionSent, pipe>>
  /\ UNCHANGED <<messages, isLoading, currentStatus, citations,
                 internalAnalysis, rateLimitTimer, chatStarted, mode, pc,
                 capLoading, capTimer, buffer, wire, sent, watchdog, timeout,
                 age, appended, advisories, errors, recognized, sawDone,
                 afterDone,
                 midSplit, failure>>
  /\ UNCHANGED bulkVars

\* ----------------------------------------------------- bulk handlers
BatchStatus(i, batches) ==
  "Processing batch " \o ToString(i + 1) \o " of " \o ToString(Len(batches))
    \o " (" \o ToString(Len(batches[i + 1])) \o " tickets)..."
CompletedStatus(i, results) ==
  "Batch " \o ToString(i + 1) \o " completed successfully. "
    \o ToString(Len(results)) \o " tickets processed."
FailedStatus(i, error) ==
  "Batch " \o ToString(i + 1) \o " failed: " \o error.message
    \o ". Continuing with next batch..."
CompleteStatus(data) ==
  "Processing complete: " \o ToString(Len(data)) \o " tickets processed"
UploadedStatus(data) ==
  "File uploaded: " \o ToString(Len(data))
    \o " tickets. Starting processing..."

\* The loop over the batches without its i++.
NextBatchRepeating(i) == i
\* i++ of the loop over the batches.
NextBatch(i) == i + 1

\* The end of startBulkProcessing, after the loop over the batches.
RunFinish(r, rec) ==
  /\ isLoading' = FALSE
  /\ currentStatus' = CompleteStatus(rec.data)
  /\ run' = [run EXCEPT ![r] = [rec EXCEPT !.pc = "done"]]

\* The loop's iteration for batch i up to processBatch's await of fetch.
RunSubmit(r, rec, i) ==
  /\ currentStatus' = BatchStatus(i, Batches(rec.data))
  /\ run' = [run EXCEPT ![r] =
               [rec EXCEPT !.pc = "fetch", !.i = i, !.results = <<>>,
                           !.wire = <<>>, !.requests = Append(@, i)]]

\* startBulkProcessing(data) up to its first await.
startBulkProcessing(r, data) ==
  /\ bulkResults' = <<>>
  /\ processedCount' = 0
  /\ LET rec == [NoRun EXCEPT !.data = data]
     IN IF Batches(data) = <<>>
        THEN RunFinish(r, rec)
        ELSE isLoading' = TRUE /\ RunSubmit(r, rec, 0)
  /\ UNCHANGED <<messages, chatStarted, mode, uploadedFile, ticketData,
                 totalCount, alert, lastFile, reading>>
  /\ UNCHANGED turnVars

\* The file input's change event, up to the await of file.text(): a file
\* with a wrong name or size leaves an alert, any other file is read.  A
\* specification follows as many pending files as it follows runs, and the
\* files that start a run as long as their runs are among the given ones.
handleFileUpload(file, runs) ==
  /\ mode = "bulk"
  /\ lastFile' = file
  /\ IF ValidateFile(file) # ""
     THEN /\ alert' = ValidateFile(file)
          /\ UNCHANGED reading
     ELSE /\ Len(reading) < Cardinality(runs)
          /\ ValidateText(file) = ""
               => NextRun + Len(SelectSeq(reading,
                                          LAMBDA f : ValidateText(f) = ""))
                    \in runs
          /\ reading' = Append(reading, file)
          /\ UNCHANGED alert
  /\ UNCHANGED <<messages, isLoading, currentStatus, chatStarted, mode,
                 uploadedFile, ticketData, processedCount, totalCount,
                 bulkResults, run>>
  /\ UNCHANGED turnVars

\* file.text() of the k-th pending file resolves, whatever the mode is by
\* then: a text that is not an array of tickets leaves an alert; otherwise
\* the bulk state is set and the 500 ms timer that starts the run is armed.
FileTextResolves(k) ==
  /\ k \in 1..Len(reading)
  /\ LET file == reading[k]
         data == JSONParseFile(file.text).items
     IN /\ reading' = SubSeq(reading, 1, k - 1)
                        \o SubSeq(reading, k + 1, Len(reading))
        /\ lastFile' = file
        /\ IF ValidateText(file) # ""
           THEN /\ alert' = ValidateText(file)
                /\ UNCHANGED <<uploadedFile, ticketData, totalCount,
                               processedCount, bulkResults, currentStatus,
                               run>>
           ELSE /\ NextRun \in Runs
                /\ uploadedFile' = file
                /\ ticketData' = data
                /\ totalCount' = Len(data)
                /\ processedCount' = 0
                /\ bulkResults' = <<>>
                /\ currentStatus' = UploadedStatus(data)
                /\ run' = [run EXCEPT ![NextRun] =
                             [NoRun EXCEPT !.pc = "scheduled",
                                           !.data = data]]
                /\ UNCHANGED alert
  /\ UNCHANGED <<messages, isLoading, chatStarted, mode>>
  /\ UNCHANGED turnVars

\* The 500 ms timer of an accepted upload fires.
RunTimer(r) ==
  /\ run[r].pc = "scheduled"
  /\ startBulkProcessing(r, run[r].data)

\* The Process button: shown when tickets are loaded, disabled while loading.
handleBulkProcess(r) ==
  /\ mode = "bulk"
  /\ ticketData # <<>>
  /\ ~isLoading
  /\ r = NextRun
  /\ startBulkProcessing(r, ticketData)

\* processBatch: fetch resolves with an ok response.
BatchFetchOk(r, streams(_)) ==
  /\ run[r].pc = "fetch"
  /\ \E s \in streams(Batches(run[r].data)[run[r].i + 1]) :
       run' = [run EXCEPT ![r].pc = "read", ![r].wire = s]
  /\ UNCHANGED <<messages, isLoading, currentStatus, chatStarted, mode,
                 uploadedFile, ticketData, processedCount, totalCount,
                 bulkResults, alert, lastFile, reading>>
  /\ UNCHANGED turnVars

\* BatchFailed with the error of a batch ending the run.
BatchFailedHalting(r, error) ==
  /\ currentStatus' = FailedStatus(run[r].i, error)
  /\ run' = [run EXCEPT ![r].pc = "done", ![r].outcome = Append(@, -1)]
  /\ UNCHANGED <<messages, isLoading, chatStarted, mode, uploadedFile,
                 ticketData, processedCount, totalCount, bulkResults, alert,
                 lastFile, reading>>
  /\ UNCHANGED turnVars
\* BatchFailed with the results read before the error added to the totals.
BatchFailedCounting(r, error) ==
  /\ currentStatus' = FailedStatus(run[r].i, error)
  /\ run' = [run EXCEPT ![r].pc = "errorDelay", ![r].outcome = Append(@, -1)]
  /\ bulkResults' = bulkResults \o run[r].results
  /\ processedCount' = processedCount + Len(run[r].results)
  /\ UNCHANGED <<messages, isLoading, chatStarted, mode, uploadedFile,
                 ticketData, totalCount, alert, lastFile, reading>>
  /\ UNCHANGED turnVars
\* processBatch returns {error}: the failure is shown and the run awaits
\* the 1000 ms that show it.
BatchFailed(r, error) ==
  /\ currentStatus' = FailedStatus(run[r].i, error)
  /\ run' = [run EXCEPT ![r].pc = "errorDelay", ![r].outcome = Append(@, -1)]
  /\ UNCHANGED <<messages, isLoading, chatStarted, mode, uploadedFile,
                 ticketData, processedCount, totalCount, bulkResults, alert,
                 lastFile, reading>>
  /\ UNCHANGED turnVars

\* processBatch: fetch resolves with a non-success status.
BatchFetchNotOk(r) ==
  /\ run[r].pc = "fetch"
  /\ BatchFailed(r, HttpError)

\* processBatch: fetch rejects.
BatchFetchReject(r) ==
  /\ run[r].pc = "fetch"
  /\ BatchFailed(r, FailedToFetch)

\* processBatch: reader.read() resolves with a chunk.
BatchReadChunk(r, lengths(_)) ==
  /\ run[r].pc = "read"
  /\ \E k \in lengths(run[r].wire) :
       LET chunk == SubSeq(run[r].wire, 1, k)
       IN run' = [run EXCEPT
                    ![r].results = BatchChunk(@, chunk),
                    ![r].wire = SubSeq(@, k + 1, Len(@))]
  /\ UNCHANGED <<messages, isLoading, currentStatus, chatStarted, mode,
                 uploadedFile, ticketData, processedCount, totalCount,
                 bulkResults, alert, lastFile, reading>>
  /\ UNCHANGED turnVars

\* The 200 ms delay awaited after the last batch too.
PauseAfterEveryBatch(rec) == TRUE
\* if (i < batches.length - 1) await the 200 ms delay between batches
PauseDue(rec) == rec.i < Len(Batches(rec.data)) - 1

\* The 1000 ms that show the failure of a batch are over: the 200 ms delay
\* between batches is awaited, or the run ends after its last batch.
BatchErrorShown(r) ==
  /\ run[r].pc = "errorDelay"
  /\ IF PauseDue(run[r])
     THEN /\ run' = [run EXCEPT ![r].pc = "pause", ![r].paused = @ + 1]
          /\ UNCHANGED <<isLoading, currentStatus>>
     ELSE RunFinish(r, run[r])
  /\ UNCHANGED <<messages, chatStarted, mode, uploadedFile, ticketData,
                 processedCount, totalCount, bulkResults, alert, lastFile, reading>>
  /\ UNCHANGED turnVars

\* processBatch: reader.read() resolves with done = true; processBatch
\* returns {results} and the loop adds them to the totals.  After the last
\* batch the run ends at once, otherwise it awaits the 200 ms delay.
BatchReadDone(r) ==
  /\ run[r].pc = "read"
  /\ run[r].wire = <<>>
  /\ bulkResults' = bulkResults \o run[r].results
  /\ processedCount' = processedCount + Len(run[r].results)
  /\ LET rec == [run[r] EXCEPT !.outcome = Append(@, Len(run[r].results))]
     IN IF PauseDue(rec)
        THEN /\ currentStatus' = CompletedStatus(rec.i, rec.results)
             /\ run' = [run EXCEPT ![r] =
                          [rec EXCEPT !.pc = "pause", !.paused = @ + 1]]
             /\ UNCHANGED isLoading
        ELSE RunFinish(r, rec)
  /\ UNCHANGED <<messages, chatStarted, mode, uploadedFile, ticketData,
                 totalCount, alert, lastFile, reading>>
  /\ UNCHANGED turnVars

\* processBatch: reader.read() rejects.
BatchReadError(r) ==
  /\ run[r].pc = "read"
  /\ BatchFailed(r, ReadFailure)

\* The 200 ms delay after a batch is over: i++ and the loop's test, then
\* the next batch or the end of the run.
BatchResume(r) ==
  /\ run[r].pc = "pause"
  /\ IF run[r].i < Len(Batches(run[r].data)) - 1
     THEN RunSubmit(r, run[r], NextBatch(run[r].i)) /\ UNCHANGED isLoading
     ELSE RunFinish(r, run[r])
  /\ UNCHANGED <<messages, chatStarted, mode, uploadedFile, ticketData,
                 processedCount, totalCount, bulkResults, alert, lastFile, reading>>
  /\ UNCHANGED turnVars

\* The Clear button of bulk mode: shown when tickets are loaded.
BulkClear ==
  /\ mode = "bulk"
  /\ ticketData # <<>>
  /\ uploadedFile' = NoFile
  /\ ticketData' = <<>>
  /\ bulkResults' = <<>>
  /\ currentStatus' = ""
  /\ processedCount' = 0
  /\ totalCount' = 0
  /\ UNCHANGED <<messages, isLoading, chatStarted, mode, run, alert, lastFile, reading>>
  /\ UNCHANGED turnVars

\* ------------------------------------------ the Pipeline Orchestrator
\* The server's pipeline for one query, as the specification describes it
\* (sections 3, 4.1 to 4.3): Start, Classifying, Routed, then Retrieving and
\* Generating or RoutingMessage, then Finalizing and Done.  pipe holds
\*   stage: the state of the pipeline
\*   classification: the ClassificationResult, once produced
\*   outcome: the RoutingDecision, "" before routing
\*   failed: a stage of this query has failed
\*   draft: the final_response being prepared
\*   stream: the events emitted so far
\*   previous: classification and outcome of the query before this one
Classifications ==
  [topic_tags : SUBSET {"How-to", "Connector", "Billing"},
   sentiment : {"Frustrated", "Curious", "Neutral"},
   priority : {"P0", "P1", "P2"}]

\* The routing policy: escalation (highest priority or strongly negative
\* sentiment) goes to a human whatever the topics are; otherwise topics the
\* documentation answers go to RAG, and everything else to a human.
Router(c) ==
  IF c.priority = "P0" \/ c.sentiment = "Frustrated" THEN "HumanRouting"
  ELSE IF c.topic_tags \cap {"How-to", "Connector"} # {} THEN "RAG"
  ELSE "HumanRouting"

\* A state transition: one node_complete event named after the state that
\* is left, then the next state.
Advance(p, next) ==
  [p EXCEPT !.stream =
              Append(@, [type |-> "node_complete", node |-> p.stage,
                         final_response |-> NoPipe.draft]),
            !.stage = next]

\* A failure that ends the stream with an error event and no payload.
Propagate(p) ==
  [p EXCEPT !.failed = TRUE, !.stage = "Done",
            !.stream = Append(@, [type |-> "error", node |-> p.stage,
                                  final_response |-> NoPipe.draft])]

\* A stage failure is caught and downgraded to a routing message.
Downgrade(p) == [Advance(p, "RoutingMessage") EXCEPT !.failed = TRUE]

\* The terminal payload emitted before the last node_complete event.
EmitTerminalFirst(p) ==
  [p EXCEPT !.stream =
              Append(Append(@, [type |-> "final_result", node |-> "",
                                final_response |-> p.draft]),
                     [type |-> "node_complete", node |-> p.stage,
                      final_response |-> NoPipe.draft]),
            !.stage = "Done"]

\* Finalizing to Done: the last node_complete event, then the FinalResult.
EmitTerminal(p) ==
  [Advance(p, "Done") EXCEPT
     !.stream = Append(@, [type |-> "final_result", node |-> "",
                           final_response |-> p.draft])]

\* The client's state: everything but the pipeline.
clientVars ==
  <<messages, isLoading, currentStatus, citations, internalAnalysis,
    showInternalView, rateLimitTimer, chatStarted, mode, pc, capLoading,
    capTimer, buffer, wire, sent, watchdog, timeout, age, appended,
    advisories, errors, recognized, sawDone, afterDone, midSplit, failure,
    uploadedFile, ticketData, processedCount, totalCount, bulkResults, run,
    alert, lastFile, reading, sessionId, sessionSent, toggled>>

\* A query arrives.
ReceiveQuery ==
  /\ pipe.stage = "Start"
  /\ pipe' = Advance(pipe, "Classifying")
  /\ UNCHANGED clientVars

\* The Classifier returns its result and the Router decides.
ClassifierReturns ==
  /\ pipe.stage = "Classifying"
  /\ \E c \in Classifications :
       pipe' = [Advance(pipe, "Routed") EXCEPT
                  !.classification = c, !.outcome = Router(c)]
  /\ UNCHANGED clientVars

\* Routed: the branch the RoutingDecision names.
Dispatch ==
  /\ pipe.stage = "Routed"
  /\ pipe' = Advance(pipe, IF pipe.outcome = "RAG" THEN "Retrieving"
                           ELSE "RoutingMessage")
  /\ UNCHANGED clientVars

\* The Retriever returns a non-empty result set.
RetrieverReturns ==
  /\ pipe.stage = "Retrieving"
  /\ pipe' = Advance(pipe, "Generating")
  /\ UNCHANGED clientVars

\* The Generator returns the answer with its sources.
GeneratorReturns ==
  /\ pipe.stage = "Generating"
  /\ pipe' = [Advance(pipe, "Finalizing") EXCEPT
                !.draft = [response_type |-> "rag_answer",
                           rag_response |-> TRUE, routing_response |-> FALSE]]
  /\ UNCHANGED clientVars

\* A stage fails: the Classifier, the Retriever (unavailable, or an empty
\* result set) or the Generator.
StageFails ==
  /\ pipe.stage \in {"Classifying", "Retrieving", "Generating"}
  /\ pipe' = Downgrade(pipe)
  /\ UNCHANGED clientVars

\* The routing message is written.
ComposeRouting ==
  /\ pipe.stage = "RoutingMessage"
  /\ pipe' = [Advance(pipe, "Finalizing") EXCEPT
                !.draft = [response_type |-> "routing_message",
                           rag_response |-> FALSE, routing_response |-> TRUE]]
  /\ UNCHANGED clientVars

\* The FinalResult is emitted and the stream ends.
Finalize ==
  /\ pipe.stage = "Finalizing"
  /\ pipe' = EmitTerminal(pipe)
  /\ UNCHANGED clientVars

\* The next query starts a new run of the pipeline.
NextQuery ==
  /\ pipe.stage = "Done"
  /\ pipe' = [NoPipe EXCEPT
                !.previous = [classification |-> pipe.classification,
                              outcome |-> pipe.outcome]]
  /\ UNCHANGED clientVars

NextPipeline ==
  \/ ReceiveQuery
  \/ ClassifierReturns
  \/ Dispatch
  \/ RetrieverReturns
  \/ GeneratorReturns
  \/ StageFails
  \/ ComposeRouting
  \/ Finalize
  \/ NextQuery

SpecPipeline == Init /\ [][NextPipeline]_vars

\* The pipeline does not stop between two stages.
SpecPipelineLive == SpecPipeline /\ WF_vars(NextPipeline)

\* --------------------------------------------------- specifications
Next ==
  \/ SessionEffect(OneSessionId)
  \/ \E t \in SpecTurns : SendByInput(t)
  \/ \E t \in SpecTurns : SendByQuestionCard(t)
  \/ \E t \in SpecTurns : FetchResolveOk(t, TurnStreams)
  \/ \E t \in SpecTurns : FetchResolveNotOk(t)
  \/ \E t \in SpecTurns : FetchReject(t)
  \/ \E t \in SpecTurns : ReadChunk(t, FrameLength(wire[t]))
  \/ \E t \in SpecTurns : ReadDone(t)
  \/ \E t \in SpecTurns : ReadError(t)
  \/ \E t \in SpecTurns : Elapse15(t)
  \/ \E t \in SpecTurns : Elapse300(t)
  \/ ClearChat
  \/ ChatModeButton
  \/ BulkModeButton
  \/ ToggleInternalView

Spec == Init /\ [][Next]_vars

\* One turn, read to the end of its stream without a timer or a UI event in
\* between: the stream reducer as a function of the stream and its chunking.
NextReducer ==
  \/ SessionEffect(OneSessionId)
  \/ Mounted /\ SendByInput(1)
  \/ Mounted /\ SendByQuestionCard(1)
  \/ FetchResolveOk(1, ReducerStreams)
  \/ ReadChunk(1, AnyLength(wire[1]))
  \/ ReadDone(1)

SpecReducer == Init /\ [][NextReducer]_vars

\* The chat UI without its timers: turns, Clear Chat, the mode buttons and
\* the toggle, with either session id.
SessionStreams ==
  {Frame(DataLine("node_classify")) \o Frame(DataLine("flat_rag"))}
NextSession ==
  \/ SessionEffect(SessionIds)
  \/ \E t \in SpecTurns : SendByInput(t)
  \/ \E t \in SpecTurns : SendByQuestionCard(t)
  \/ \E t \in SpecTurns : FetchResolveOk(t, SessionStreams)
  \/ \E t \in SpecTurns : ReadChunk(t, FrameLength(wire[t]))
  \/ \E t \in SpecTurns : ReadDone(t)
  \/ ClearChat
  \/ ChatModeButton
  \/ BulkModeButton
  \/ ToggleInternalView

SpecSession == Init /\ [][NextSession]_vars

\* Turns sent from the input box less than 15 seconds apart, each answered
\* by one terminal payload, with or without a progress event before it: no
\* timer fires.
WatchdogStreams ==
  {Frame(DataLine("flat_rag")),
   Frame(DataLine("node_classify")) \o Frame(DataLine("flat_rag"))}
NextWatchdog ==
  \/ SessionEffect(OneSessionId)
  \/ \E t \in Turns : SendByInput(t)
  \/ \E t \in Turns : FetchResolveOk(t, WatchdogStreams)
  \/ \E t \in Turns : ReadChunk(t, FrameLength(wire[t]))
  \/ \E t \in Turns : ReadDone(t)

SpecWatchdog == Init /\ [][NextWatchdog]_vars

\* One turn with every way its call of handleSendMessage can end: streams
\* with and without a terminal payload and with the sentinel, a non-success
\* status, a rejected fetch or read, the abort timer.  The watchdog and the
\* buttons of the page act in between, and a bulk run that awaits its
\* response keeps isLoading true when the turn starts from a question card.
EndStreams ==
  TurnStreams \cup {Frame(DataLine("node_classify")), <<>>}
NextTurnEnd ==
  \/ SessionEffect(OneSessionId)
  \/ SendByInput(1)
  \/ SendByQuestionCard(1)
  \/ FetchResolveOk(1, EndStreams)
  \/ FetchResolveNotOk(1)
  \/ FetchReject(1)
  \/ ReadChunk(1, FrameLength(wire[1]))
  \/ ReadDone(1)
  \/ ReadError(1)
  \/ Elapse15(1)
  \/ Elapse300(1)
  \/ ClearChat
  \/ ChatModeButton
  \/ BulkModeButton
  \/ \E file \in ValidFiles({1}) : handleFileUpload(file, {1})
  \/ \E k \in 1..MaxRuns : FileTextResolves(k)
  \/ RunTimer(1)

SpecTurnEnd == Init /\ [][NextTurnEnd]_vars

\* One turn whose stream is one or two newline-terminated frames, each with
\* one JSON text of the protocol, read frame by frame: the reducer as a
\* function of the payload.
PayloadStreams ==
  {Frame(DataLine(x)) : x \in JsonTexts}
    \cup {Frame(DataLine(x)) \o Frame(DataLine(y)) :
            x \in JsonTexts, y \in JsonTexts}
NextPayload ==
  \/ SessionEffect(OneSessionId)
  \/ Mounted /\ SendByInput(1)
  \/ Mounted /\ SendByQuestionCard(1)
  \/ FetchResolveOk(1, PayloadStreams)
  \/ ReadChunk(1, FrameLength(wire[1]))
  \/ ReadDone(1)

SpecPayload == Init /\ [][NextPayload]_vars

\* One bulk run from its upload to its end, with no other upload accepted
\* and no Process, Clear or Chat Mode click in between; files of up to
\* MaxTickets tickets, of the sizes around the batch boundaries.
TicketCounts ==
  {0, 1, batchSize, batchSize + 1, 2 * batchSize, MaxTickets}
NextBulkRun ==
  \/ SessionEffect(OneSessionId)
  \/ Mounted /\ BulkModeButton
  \/ \E file \in ValidFiles(TicketCounts) \cup InvalidFiles :
       handleFileUpload(file, {1})
  \/ \E k \in 1..MaxRuns : FileTextResolves(k)
  \/ RunTimer(1)
  \/ BatchFetchOk(1, BatchStreams)
  \/ BatchFetchNotOk(1)
  \/ BatchFetchReject(1)
  \/ BatchReadChunk(1, FrameLength)
  \/ BatchReadDone(1)
  \/ BatchReadError(1)
  \/ BatchErrorShown(1)
  \/ BatchResume(1)

SpecBulkRun == Init /\ [][NextBulkRun]_vars

\* One bulk run whose responses reach processBatch in chunks of any length.
DrainFiles == ValidFiles({1, batchSize + 1})
NextBatchDrain ==
  \/ SessionEffect(OneSessionId)
  \/ Mounted /\ BulkModeButton
  \/ \E file \in DrainFiles : handleFileUpload(file, {1})
  \/ \E k \in 1..MaxRuns : FileTextResolves(k)
  \/ RunTimer(1)
  \/ BatchFetchOk(1, BatchStreams)
  \/ BatchReadChunk(1, AnyLength)
  \/ BatchReadDone(1)
  \/ BatchResume(1)

SpecBatchDrain == Init /\ [][NextBatchDrain]_vars

\* The bulk UI: up to MaxRuns runs, started by uploads and Process clicks,
\* with Clear clicks and mode switches at any time.
BulkStreams(batch) ==
  {PerTicket(batch), PerTicket(batch) \o Frame(DataLine(SummaryText))}
WholeLength(w) == IF w = <<>> THEN {} ELSE {Len(w)}
BulkFiles ==
  ValidFiles({batchSize + 1})
    \cup {[TicketFile(SomeTickets) EXCEPT !.size = maxSize + 1]}
NextBulk ==
  \/ SessionEffect(OneSessionId)
  \/ Mounted /\ BulkModeButton
  \/ Mounted /\ ChatModeButton
  \/ BulkClear
  \/ \E file \in BulkFiles : handleFileUpload(file, Runs)
  \/ \E k \in 1..MaxRuns : FileTextResolves(k)
  \/ \E r \in Runs : handleBulkProcess(r)
  \/ \E r \in Runs : RunTimer(r)
  \/ \E r \in Runs : BatchFetchOk(r, BulkStreams)
  \/ \E r \in Runs : BatchFetchNotOk(r)
  \/ \E r \in Runs : BatchFetchReject(r)
  \/ \E r \in Runs : BatchReadChunk(r, WholeLength)
  \/ \E r \in Runs : BatchReadDone(r)
  \/ \E r \in Runs : BatchReadError(r)
  \/ \E r \in Runs : BatchErrorShown(r)
  \/ \E r \in Runs : BatchResume(r)

SpecBulk == Init /\ [][NextBulk]_vars

\* ------------------------------------------------ the reducer's claims
\* The view of turn 1 of SpecReducer when its stream opens: the state
\* handleSendMessage and FetchResolveOk leave.
ReducerOpenView ==
  [messages |-> <<UserMessage("query")>>, isLoading |-> TRUE,
   currentStatus |-> "Understanding your question...", citations |-> <<>>,
   internalAnalysis |-> NoInternalAnalysis, rateLimitTimer |-> 1,
   watchdog |-> {1}, appended |-> 0, recognized |-> <<>>,
   sawDone |-> FALSE, afterDone |-> 0]

\* The view after the stream has arrived as one unsplit chunk and ended.
WholeRun(stream) ==
  LET v == IF stream = <<>> THEN ReducerOpenView
           ELSE ProcessChunk(ReducerOpenView, <<>>, stream, capTimer[1])
      b == IF stream = <<>> THEN <<>> ELSE HeldBack(<<>>, stream)
  IN Finally(StreamEnd(v, b, capTimer[1], capLoading[1]), capTimer[1])

SameConversation(w) ==
  /\ messages = w.messages
  /\ citations = w.citations
  /\ internalAnalysis = w.internalAnalysis

SameTurnState(w) ==
  /\ SameConversation(w)
  /\ isLoading = w.isLoading
  /\ currentStatus = w.currentStatus

\* C1: however the response stream is split into chunks, mid-line splits
\* included, the final message list, citations and internal-analysis
\* classification are those of the stream arriving as one unsplit chunk.
ChunkingInvariance ==
  pc[1] = "done" => SameConversation(WholeRun(sent[1]))

\* C1 witness: a turn has ended whose stream was cut in the middle of a
\* line and delivered an answer.
ChunkingInvarianceWitness ==
  /\ pc[1] = "done"
  /\ midSplit[1]
  /\ appended[1] >= 1
  /\ citations # <<>>

\* The last line of a stream and whether it lacks its newline.
LastLine(stream) == LET lines == SplitNL(stream) IN lines[Len(lines)]
EndsUnterminatedTerminal(stream) ==
  /\ stream # <<>>
  /\ LET l == LastLine(stream)
     IN /\ StartsWithData(l)
        /\ \E x \in {FlatText(id) : id \in ValidFinalResultIds}
                      \cup {WrapText(id) : id \in ValidFinalResultIds} :
             Trim(Slice6(l)) = <<x>>

\* C2: a terminal payload (flattened or wrapped) on a last line without a
\* newline appends its assistant message as if the line had been terminated.
UnterminatedLineDelivered ==
  (pc[1] = "done" /\ EndsUnterminatedTerminal(sent[1]))
    => messages = WholeRun(sent[1] \o <<NL>>).messages

\* Whether a payload the reducer takes as terminal supplies an answer text:
\* flattened, the field response_type names; final_result with data, the
\* RAG answer or the routing message; legacy, data, content or
\* response.data; generic, response.data.
SuppliesText(text) ==
  LET p == JSONParse(<<text>>).value
  IN IF p.internal_analysis.present /\ p.final_response.present
     THEN \/ /\ p.final_response.response_type = "rag_answer"
             /\ p.final_response.rag_response.answer # ""
          \/ /\ p.final_response.response_type = "routing_message"
             /\ p.final_response.routing_response.message # ""
     ELSE IF p.type = "final_result" /\ DataTruthy(p.data)
     THEN /\ p.data.kind = "fr"
          /\ \/ p.data.fr.final_response.rag_response.answer # ""
             \/ p.data.fr.final_response.routing_response.message # ""
     ELSE IF p.type \in {"final_response", "final_result"}
     THEN DataTruthy(p.data) \/ p.content # "" \/ p.response.data # ""
     ELSE p.response.data # ""

TextBearing(t) ==
  Cardinality({i \in 1..Len(recognized[t]) : SuppliesText(recognized[t][i])})

\* C3 as stated: every payload taken as terminal appends exactly one
\* assistant message.
OneMessagePerTerminal ==
  appended[1] = Len(recognized[1])

\* C3 amended: a payload taken as terminal appends exactly one assistant
\* message when it supplies a non-empty answer text and none when it
\* supplies no text; it never appends two.
OneMessagePerTextBearingTerminal ==
  appended[1] = TextBearing(1)

\* C3 witness: the reducer has taken two payloads as terminal, one with
\* text and one without, and appended one message.
OneMessagePerTextBearingTerminalWitness ==
  /\ Len(recognized[1]) = 2
  /\ TextBearing(1) = 1
  /\ appended[1] = 1

\* The stream with every flattened FinalResult sent wrapped instead.
RECURSIVE AsWrapped(_)
AsWrapped(stream) ==
  IF stream = <<>> THEN <<>>
  ELSE LET x == Head(stream)
       IN <<IF x \in {FlatText(id) : id \in ValidFinalResultIds}
            THEN WrapText(CHOOSE id \in ValidFinalResultIds : FlatText(id) = x)
            ELSE x>> \o AsWrapped(Tail(stream))

\* C4: a FinalResult that satisfies the data-model invariant gives the same
\* message, citations, internal analysis, loading and status state whether
\* it is delivered flattened or wrapped.
FlatWrappedEquivalent ==
  pc[1] = "done" => SameTurnState(WholeRun(AsWrapped(sent[1])))

\* C5: after the [DONE] line no later line of the stream is parsed or
\* changes the message list, the citations or the status.
DoneEndsProcessing ==
  [][sawDone[1] =>
       /\ afterDone'[1] = afterDone[1]
       /\ messages' = messages
       /\ citations' = citations
       /\ currentStatus' = currentStatus]_vars

\* The stream without its newline-terminated malformed data lines.
RECURSIVE DropMalformed(_, _)
DropMalformed(stream, atLineStart) ==
  IF stream = <<>> THEN <<>>
  ELSE IF atLineStart /\ Len(stream) >= 3
          /\ SubSeq(stream, 1, 3) = <<DataMarker, BadJson, NL>>
  THEN DropMalformed(SubSeq(stream, 4, Len(stream)), TRUE)
  ELSE <<Head(stream)>> \o DropMalformed(Tail(stream), Head(stream) = NL)

HasMalformedLine(stream) ==
  \E i \in 1..Len(stream) : stream[i] = BadJson

\* C6: malformed data lines are skipped: the final message list, citations,
\* internal analysis and loading state are those of the stream without them.
MalformedLinesSkipped ==
  pc[1] = "done" =>
    LET w == WholeRun(DropMalformed(sent[1], TRUE))
    IN SameConversation(w) /\ isLoading = w.isLoading

\* C6 witness: a turn has ended whose stream had a malformed line between a
\* progress event and a terminal payload, and the answer was delivered.
MalformedLinesSkippedWitness ==
  /\ pc[1] = "done"
  /\ sent[1] = Frame(DataLine("node_classify")) \o Frame(DataLine(BadJson))
                 \o Frame(DataLine("flat_rag"))
  /\ appended[1] = 1
  /\ ~isLoading

\* -------------------------------------------------- the timers' claims
Pending(t) == pc[t] \in {"fetch", "read"}

\* C7: when 15 seconds have passed since a turn started and no terminal
\* payload has arrived, the watchdog appends one advisory message and sets
\* isLoading to false.
WatchdogAdvises ==
  [][\A t \in Turns :
       (age[t] = 0 /\ age'[t] = 1 /\ Pending(t) /\ recognized[t] = <<>>)
         => /\ advisories'[t] = 1
            /\ messages' = Append(messages, AssistantMessage(RateLimitMessage))
            /\ ~isLoading']_vars

\* C8: once the watchdog of a turn has appended its advisory message, the
\* read loop of that turn appends no assistant message.
NoAnswerAfterAdvisory ==
  [][\A t \in Turns :
       advisories[t] >= 1 => appended'[t] = appended[t]]_vars

\* C9: after a terminal payload, the [DONE] line, an error in the turn or
\* the user clearing the conversation, neither timer of the turn is pending.
TimersCancelled ==
  /\ [](\A t \in Turns :
          (recognized[t] # <<>> \/ sawDone[t] \/ errors[t] # <<>>)
            => (t \notin watchdog /\ t \notin timeout))
  /\ [][(chatStarted /\ ~chatStarted' /\ mode = "chat" /\ mode' = "chat"
           /\ messages # <<>> /\ messages' = <<>>)
          => (watchdog' = {} /\ timeout' = {})]_vars

\* C10: when 5 minutes have passed since a turn started and the turn has not
\* completed, whether it awaits the response or reads its stream, the read
\* is aborted and the timeout message is appended.
HardTimeoutAborts ==
  [][\A t \in Turns :
       (age[t] = 1 /\ age'[t] = 2 /\ Pending(t))
         => /\ pc'[t] = "done"
            /\ errors'[t] = <<TimeoutMessage>>
            /\ messages' = Append(messages, AssistantMessage(TimeoutMessage))
    ]_vars

\* --------------------------------------------- liveness of a chat turn
\* Timers fire: a started turn reaches the age of 15 seconds and then of
\* 5 minutes.  Nothing obliges the server or the network to deliver a chunk,
\* to close the stream or to fail, nor the user to act.
SpecLive ==
  /\ Init
  /\ [][Next]_vars
  /\ \A t \in Turns : WF_vars(Elapse15(t)) /\ WF_vars(Elapse300(t))

Served(t) == appended[t] > 0 \/ advisories[t] > 0 \/ errors[t] # <<>>

\* C11: every started turn comes to a state where isLoading is false and
\* the turn has received a terminal payload's message or a synthetic
\* message (advisory, timeout, connectivity or server error).
NoIndefiniteLoading ==
  \A t \in Turns : Started(t) ~> (~isLoading /\ Served(t))

\* ------------------------------------------- cancellation and requests
ClearChatStep ==
  mode = "chat" /\ mode' = "chat" /\ messages # <<>> /\ messages' = <<>>
LeaveChatStep == mode = "chat" /\ mode' = "bulk"
IsAssistant(m) == m.role = "assistant"

\* C12: when the user clears the conversation or leaves chat mode while a
\* turn is pending, the turn's read is aborted, both its timers are cleared,
\* isLoading and currentStatus are reset and the assistant messages already
\* appended stay in the message list.
CancellationAborts ==
  [][\A t \in Turns :
       (Pending(t) /\ (ClearChatStep \/ LeaveChatStep))
         => /\ ~Pending(t)'
            /\ t \notin watchdog' /\ t \notin timeout'
            /\ ~isLoading' /\ currentStatus' = ""
            /\ SelectSeq(messages', IsAssistant)
                 = SelectSeq(messages, IsAssistant)]_vars

\* C13: at most one chat request is in flight: no turn is started while an
\* earlier turn awaits its response or reads its stream.
OneRequestInFlight ==
  Cardinality({t \in Turns : Pending(t)}) <= 1

\* The text the three kinds of transport failure are to be given.
TransportText(error) ==
  IF error = AbortError THEN TimeoutMessage
  ELSE IF error = HttpError THEN ServerErrorMessage
  ELSE ConnectMessage

\* C14: a turn that fails by an abort, a connection failure of its request
\* or a non-success status appends exactly one assistant message, with the
\* text of its kind of failure.
TransportErrorTexts ==
  [][\A t \in Turns :
       (failure[t] = NoError
          /\ failure'[t] \in {AbortError, HttpError} \cup FetchRejections)
         => messages' = Append(messages,
                               AssistantMessage(TransportText(failure'[t])))
    ]_vars

\* ------------------------------------------------ the bulk run's claims
RECURSIVE Concat(_)
Concat(ss) == IF ss = <<>> THEN <<>> ELSE Head(ss) \o Concat(Tail(ss))

RunStarted(r) == run[r].pc \notin {"idle", "scheduled"}

\* C15: the batches of a run over N tickets are ceil(N/5) in number, each of
\* 5 tickets but the last, which has 1 to 5, and concatenated in order they
\* are the ticket list.
BatchPartition ==
  \A r \in Runs :
    RunStarted(r) =>
      LET data == run[r].data
          batches == Batches(data)
          n == Len(batches)
      IN /\ n = (Len(data) + 4) \div 5
         /\ \A k \in 1..n :
              IF k < n THEN Len(batches[k]) = 5
              ELSE Len(batches[k]) \in 1..5
         /\ Concat(batches) = data

BatchPartitionWitness ==
  /\ run[1].pc = "done"
  /\ Len(run[1].data) = 12
  /\ Len(run[1].outcome) = 3
  /\ Len(Batches(run[1].data)[3]) = 2

\* C16: the batches of a run are requested in increasing index order, and a
\* batch is requested only when every earlier batch has been read to the
\* end of its stream or has failed.
BatchSequencing ==
  /\ [](\A r \in Runs :
          /\ \A k \in 1..Len(run[r].requests) : run[r].requests[k] = k - 1
          /\ Len(run[r].requests) - Len(run[r].outcome) \in {0, 1})
  /\ [][\A r \in Runs :
          Len(run[r].requests') > Len(run[r].requests)
            => Len(run[r].outcome) = Len(run[r].requests)]_vars

BatchSequencingWitness ==
  /\ run[1].requests = <<0, 1, 2>>
  /\ run[1].pc = "read"
  /\ run[1].outcome = <<5, 5>>
  /\ run[1].results # <<>>

\* C17: a run over k batches requests all k of them whichever of them fail,
\* and ends with isLoading false.
FailureIsolation ==
  /\ [](\A r \in Runs :
          run[r].pc = "done" =>
            /\ Len(run[r].requests) = (Len(run[r].data) + 4) \div 5
            /\ Len(run[r].outcome) = Len(run[r].requests))
  /\ [][\A r \in Runs :
          (run[r].pc # "done" /\ run[r].pc' = "done") => ~isLoading']_vars

FailureIsolationWitness ==
  /\ run[1].pc = "done"
  /\ run[1].outcome = <<-1, -1, 2>>
  /\ run[1].requests = <<0, 1, 2>>
  /\ ~isLoading

RECURSIVE SumReturned(_)
SumReturned(outcome) ==
  IF outcome = <<>> THEN 0
  ELSE (IF Head(outcome) >= 0 THEN Head(outcome) ELSE 0)
         + SumReturned(Tail(outcome))

\* C18: at the end of a run processedCount is the sum of the numbers of
\* results of the batches that returned; a failed batch adds nothing.  With
\* 12 tickets, one result per ticket and batch 2 alone failing, it is 7.
RunningTotal ==
  \A r \in Runs :
    run[r].pc = "done" =>
      /\ processedCount = SumReturned(run[r].outcome)
      /\ (Len(run[r].data) = 12 /\ run[r].outcome = <<5, -1, 2>>)
           => processedCount = 7

RunningTotalWitness ==
  /\ run[1].pc = "done"
  /\ Len(run[1].data) = 12
  /\ run[1].outcome = <<5, -1, 2>>
  /\ processedCount = 7
  /\ Len(bulkResults) = 7

\* C19: processedCount never exceeds totalCount.
ProcessedWithinTotal == processedCount <= totalCount

\* A file the validation is to reject.
Rejectable(file) ==
  \/ file.name \notin {"tickets.json"}
  \/ file.size > 2 * 1024 * 1024
  \/ file.text.kind # "array"
  \/ \E k \in 1..Len(file.text.items) :
       file.text.items[k].id = 0 \/ file.text.items[k].body = ""

\* C20: an upload of a file that is not named .json, is larger than 2 MB,
\* is not JSON, is not an array or has an element without id or body sends
\* no request, schedules no run and leaves ticketData, totalCount,
\* processedCount and bulkResults as they were.
UploadValidation ==
  [][((lastFile' # lastFile \/ alert' # alert \/ reading' # reading)
        /\ Rejectable(lastFile'))
       => /\ UNCHANGED <<uploadedFile, ticketData, totalCount,
                         processedCount, bulkResults, run>>
          /\ alert' # "" \/ Len(reading') > Len(reading)]_vars

UploadValidationWitness ==
  /\ lastFile.size > 2 * 1024 * 1024
  /\ alert = "File size must be less than 2MB"
  /\ run[1].pc = "done"
  /\ ticketData # <<>>
  /\ processedCount > 0

\* ------------------------------------------------ one payload at a time
\* A step of SpecPayload in which the read loop of turn 1 takes the next
\* frame of the stream, and the JSON text and object of that frame.
ReadsFrame ==
  /\ pc[1] = "read" /\ pc'[1] = "read"
  /\ Len(wire[1]) >= 4
  /\ wire'[1] = SubSeq(wire[1], 5, Len(wire[1]))
FrameText == wire[1][2]
FrameObject == JSONParse(<<FrameText>>).value
TakenAsTerminal == recognized'[1] # recognized[1]

\* The answer a payload is to give by the precedence RAG answer, routing
\* message, generic content / response data ("" when no field has text).
ByPrecedence(parsed) ==
  LET fr == IF parsed.data.kind = "fr"
            THEN parsed.data.fr.final_response
            ELSE parsed.final_response
  IN IF fr.rag_response.answer # "" THEN fr.rag_response.answer
     ELSE IF fr.routing_response.message # ""
     THEN fr.routing_response.message
     ELSE IF parsed.data.kind = "str" /\ parsed.data.str # ""
     THEN parsed.data.str
     ELSE IF parsed.content # "" THEN parsed.content
     ELSE parsed.response.data

\* C26: in every terminal shape the appended content is the RAG answer if
\* the payload has one, otherwise its routing message, otherwise its generic
\* content or response data; a payload with both a RAG answer and a routing
\* message yields the RAG answer.
ExtractionPrecedence ==
  [][(ReadsFrame /\ TakenAsTerminal /\ ByPrecedence(FrameObject) # "")
       => messages' =
            Append(messages, AssistantMessage(ByPrecedence(FrameObject)))]_vars

\* The shapes the read loop takes as terminal: the flattened pair, the
\* final_result and final_response types, and a response with data.
TerminalShape(parsed) ==
  \/ parsed.internal_analysis.present /\ parsed.final_response.present
  \/ parsed.type \in {"final_result", "final_response"}
  \/ parsed.response.present /\ parsed.response.data # ""

LeftLoading ==
  /\ messages' = messages
  /\ citations' = citations
  /\ isLoading' = isLoading
  /\ ~TakenAsTerminal

\* C27 as stated: a node_complete event appends no message, leaves the
\* citations and isLoading as they are and is not taken as terminal,
\* whatever its node, message and data hold; only the flattened shape and
\* the final_result wrapper are taken as terminal.
NodeCompleteNeverTerminal ==
  [][ReadsFrame
       => /\ (FrameObject.type = "node_complete" /\ ~IsFlattened(FrameObject))
               => LeftLoading
          /\ TakenAsTerminal => FrameText \in FlatTexts \cup WrapTexts]_vars

\* C27 amended: a node_complete event without the top-level pair
\* internal_analysis and final_response appends no message, leaves the
\* citations and isLoading as they are and is not taken as terminal,
\* whatever its node, message and data hold; the payloads taken as terminal
\* are those of the flattened, final_result, final_response and
\* response-data shapes.
NodeCompleteNotTerminal ==
  [][ReadsFrame
       => /\ (FrameObject.type = "node_complete" /\ ~IsFlattened(FrameObject))
               => LeftLoading
          /\ TakenAsTerminal => TerminalShape(FrameObject)]_vars

\* C27 witness: the read loop has taken a finalize_response event whose
\* data is a whole FinalResult, after a RAG answer with citations, and then
\* met the end of the stream: one message, the citations of the answer.
NodeCompleteNotTerminalWitness ==
  /\ pc[1] = "done"
  /\ sent[1] = Frame(DataLine("flat_rag")) \o Frame(DataLine("node_final"))
  /\ recognized[1] = <<"flat_rag">>
  /\ appended[1] = 1
  /\ citations = <<"s1", "s2">>
  /\ currentStatus = ""

\* C28: a node_complete event whose node is classify, agent,
\* document_search or finalize_response sets currentStatus to the node's
\* phrase whatever its message is; an event with another node sets it to
\* the cleaned-up message; the stream goes on.
ProgressMapping ==
  [][(ReadsFrame /\ FrameObject.type = "node_complete"
        /\ ~IsFlattened(FrameObject))
       => currentStatus' =
            IF FrameObject.node \in StatusMapNodes
            THEN statusMap(FrameObject.node)
            ELSE CleanMessage(FrameObject.message)]_vars

\* ------------------------------------------------------------ citations
\* The sources a terminal payload carries.
PayloadSources(parsed) ==
  IF parsed.data.kind = "fr"
  THEN parsed.data.fr.final_response.rag_response.sources
  ELSE IF parsed.final_response.present
  THEN parsed.final_response.rag_response.sources
  ELSE IF parsed.citations.present THEN parsed.citations.items
  ELSE parsed.response.citations.items

\* The sources of the terminal payload of turn t; none when the turn had no
\* terminal payload.
TurnSources(t) ==
  IF recognized[t] = <<>> THEN <<>>
  ELSE PayloadSources(JSONParse(<<recognized[t][Len(recognized[t])]>>).value)

\* C29: when the most recent turn has completed, the citations are the
\* sources of that turn's terminal payload, and empty when it ended with a
\* routing message, an error message or a RAG answer without sources.
CitationsOfTurn ==
  \A t \in Turns :
    (t = NextTurn - 1 /\ pc[t] = "done") => citations = TurnSources(t)

\* ------------------------------------------------ the inter-batch pause
\* A step in which the last batch of run r ends, by results or by an error.
LastBatchEnds(r) ==
  /\ Len(run[r].outcome') = Len(run[r].outcome) + 1
  /\ Len(run[r].outcome') = Len(Batches(run[r].data))

RunFinished(r) ==
  /\ run[r].pc' = "done"
  /\ ~isLoading'
  /\ currentStatus' = CompleteStatus(run[r].data)

\* C30 as stated: a pause is awaited between consecutive batches and none
\* after the last: in the step in which the last batch succeeds or fails
\* the run sets isLoading to false and the completion status.
NoDelayAfterLastBatch ==
  /\ [](\A r \in Runs :
          run[r].pc = "done" /\ run[r].data # <<>>
            => run[r].paused = Len(Batches(run[r].data)) - 1)
  /\ [][\A r \in Runs : LastBatchEnds(r) => RunFinished(r)]_vars

\* C30 amended: the 200 ms pause is awaited after every batch but the last.
\* In the step in which the last batch succeeds the run sets isLoading to
\* false and the completion status; when the last batch fails the run
\* awaits the 1000 ms that show the failure, with isLoading still true, and
\* its next step sets isLoading to false and the completion status.
PauseBetweenBatchesOnly ==
  /\ [](\A r \in Runs :
          run[r].pc = "done" /\ run[r].data # <<>>
            => run[r].paused = Len(Batches(run[r].data)) - 1)
  /\ [][\A r \in Runs :
          /\ (LastBatchEnds(r) /\ run[r].outcome'[Len(run[r].outcome')] >= 0)
               => RunFinished(r)
          /\ (LastBatchEnds(r) /\ run[r].outcome'[Len(run[r].outcome')] < 0)
               => run[r].pc' = "errorDelay" /\ isLoading'
          /\ (/\ run[r].pc = "errorDelay"
              /\ Len(run[r].outcome) = Len(Batches(run[r].data))
              /\ run[r]' # run[r])
               => RunFinished(r)]_vars

\* C30 witness: a run of three batches has ended after its last batch
\* failed; it awaited the 200 ms pause twice.
PauseBetweenBatchesOnlyWitness ==
  /\ run[1].pc = "done"
  /\ run[1].outcome = <<5, 5, -1>>
  /\ run[1].paused = 2
  /\ ~isLoading
  /\ currentStatus = CompleteStatus(run[1].data)

\* ------------------------------------------- internal view and session
\* C24: the internal analysis is displayed only when showInternalView is
\* true, and showInternalView is true only if the toggle was pressed since
\* the most recent turn started; no step but a press of the toggle turns
\* the display on.
InternalViewOnlyOnToggle ==
  /\ [](InternalAnalysisShown => showInternalView)
  /\ [](showInternalView => toggled /\ internalAnalysis.present)
  /\ [][(~InternalAnalysisShown /\ InternalAnalysisShown')
          => (toggled' /\ showInternalView' # showInternalView)]_vars

\* C24 witness: the user has shown the analysis in the first turn and
\* started a second turn, whose terminal payload has arrived: the analysis
\* is stored and not displayed.
InternalViewOnlyOnToggleWitness ==
  /\ pc[1] = "done" /\ pc[2] = "done"
  /\ recognized[1] # <<>> /\ recognized[2] # <<>>
  /\ internalAnalysis.present
  /\ ~showInternalView /\ ~toggled
  /\ mode = "chat" /\ chatStarted

\* C25: the session id is generated once: once non-empty it never changes,
\* whatever turns, Clear Chat clicks and mode switches happen, and every
\* chat request carries it.
SessionStable ==
  /\ [](\A t \in Turns :
          Started(t) => sessionId # "" /\ sessionSent[t] = sessionId)
  /\ [][sessionId # "" => sessionId' = sessionId]_vars

\* ------------------------------------------------ the pipeline's claims
IsTerminal(e) == e.type = "final_result"

\* C21: the stream of a query is node_complete events followed by exactly
\* one terminal payload, with no event after it; the payload's
\* response_type is rag_answer exactly when rag_response is set and
\* routing_message exactly when routing_response is set, and exactly one of
\* the two is set.
StreamShape ==
  LET s == pipe.stream
  IN /\ \A i \in 1..Len(s) :
          /\ s[i].type \in {"node_complete", "final_result"}
          /\ IsTerminal(s[i]) =>
               /\ i = Len(s)
               /\ pipe.stage = "Done"
               /\ s[i].final_response.response_type = "rag_answer"
                    <=> s[i].final_response.rag_response
               /\ s[i].final_response.response_type = "routing_message"
                    <=> s[i].final_response.routing_response
               /\ s[i].final_response.rag_response
                    # s[i].final_response.routing_response
     /\ pipe.stage = "Done" => (s # <<>> /\ IsTerminal(s[Len(s)]))

\* C21 witness: a query has gone through retrieval and generation: six
\* node_complete events, then the RAG answer.
StreamShapeWitness ==
  /\ pipe.stage = "Done"
  /\ Len(pipe.stream) = 7
  /\ pipe.stream[6].node = "Finalizing"
  /\ pipe.stream[7].final_response.response_type = "rag_answer"
  /\ pipe.previous.outcome = "HumanRouting"

\* C23: a failure of the Classifier, the Retriever or the Generator leads
\* to Done through a routing-message payload; every run, failing or not,
\* ends its stream with exactly one terminal payload, and no error event
\* is emitted.
FailureDowngraded ==
  /\ [](LET s == pipe.stream
        IN /\ \A i \in 1..Len(s) : s[i].type # "error"
           /\ pipe.stage = "Done" =>
                /\ Cardinality({i \in 1..Len(s) : IsTerminal(s[i])}) = 1
                /\ IsTerminal(s[Len(s)])
                /\ pipe.failed =>
                     /\ s[Len(s)].final_response.response_type
                          = "routing_message"
                     /\ s[Len(s)].final_response.routing_response
                     /\ ~s[Len(s)].final_response.rag_response)
  /\ (pipe.failed ~> pipe.stage = "Done")
  /\ (pipe.stage # "Done" ~> pipe.stage = "Done")

\* C23 witness: the Generator has failed on a query routed to RAG, and the
\* run has ended with a routing message.
FailureDowngradedWitness ==
  /\ pipe.stage = "Done"
  /\ pipe.failed
  /\ pipe.outcome = "RAG"
  /\ Len(pipe.stream) = 8
  /\ pipe.stream[5].node = "Generating"
  /\ pipe.stream[8].final_response.response_type = "routing_message"

\* ------------------------------------------- the watchdog of a turn
\* C31: once the fetch of a turn has resolved and its response body is
\* being read, the watchdog timer that turn armed is no longer pending.
WatchdogClearedOnResponse ==
  \A t \in Turns : pc[t] = "read" => t \notin watchdog

\* C32: at most one watchdog timer is pending at any time: a new turn
\* cancels the watchdog timers of the earlier turns before it arms its own,
\* for turns started less than 15 seconds apart.
OneWatchdogPending ==
  (\A t \in Turns : age[t] = 0) => Cardinality(watchdog) <= 1

\* ------------------------------------------- the draining of a batch
\* C33: the results recorded for a batch do not depend on how its response
\* stream is split into chunks: reading a first chunk of any length and then
\* the rest gives the results of reading all that is left in one chunk, so
\* a data line split across two chunks is recorded once.
BatchChunkingInvariance ==
  [][\A r \in Runs :
       (run[r].pc = "read" /\ run'[r].pc = "read"
          /\ run'[r].wire # run[r].wire)
         => BatchChunk(run'[r].results, run'[r].wire)
              = BatchChunk(run[r].results, run[r].wire)]_vars

\* ------------------------------------------- the messages of a turn
\* The assistant messages a turn has appended: the answers of its read loop,
\* its error messages and its watchdog advisories.
AssistantMessagesOf(t) == appended[t] + Len(errors[t]) + advisories[t]

\* C34: within one chat turn at most one assistant message is appended,
\* whatever the stream contains: a second terminal-shaped frame, a terminal
\* frame after [DONE] or a read error after a terminal payload adds none.
OneAssistantMessagePerTurn ==
  \A t \in Turns : AssistantMessagesOf(t) <= 1

\* C35: when a call of handleSendMessage ends, by any path (stream end
\* with or without a terminal payload or the sentinel before it, non-success
\* status, network error, abort), isLoading is false and currentStatus is
\* the empty string.
LoadingResetAtEnd ==
  [][\A t \in Turns :
       (pc[t] # "done" /\ pc'[t] = "done")
         => (~isLoading' /\ currentStatus' = "")]_vars

\* A turn started while isLoading was true, whose stream closed after a
\* progress event only: the end of the stream has set "Processing complete"
\* and the call has ended with loading and status reset.
LoadingResetAtEndWitness ==
  /\ pc[1] = "done"
  /\ capLoading[1]
  /\ sent[1] = Frame(DataLine("node_classify"))
  /\ recognized[1] = <<>>
  /\ errors[1] = <<>>
  /\ ~isLoading
  /\ currentStatus = ""

\* ---------------------------------------------- turns and the page
\* A step of the completion of turn t: its terminal payload, its sentinel,
\* its error handler or its finally block.
CompletionStep(t) ==
  \/ recognized'[t] # recognized[t]
  \/ sawDone'[t] # sawDone[t]
  \/ errors'[t] # errors[t]
  \/ (pc[t] # "done" /\ pc'[t] = "done")

\* Turn u has sent its request and no terminal payload of its own has
\* arrived.
AwaitsTerminal(u) == Pending(u) /\ recognized[u] = <<>> /\ ~sawDone[u]

\* C36: the completion of a chat turn never sets isLoading to false and
\* never clears currentStatus while a later turn is still waiting for its
\* own terminal payload.
TurnIsolation ==
  [][\A t \in Turns : \A u \in Turns :
       (t < u /\ CompletionStep(t) /\ AwaitsTerminal(u))
         => /\ isLoading => isLoading'
            /\ currentStatus # "" => currentStatus' # ""]_vars

\* C37: the chat message list, when it is not empty, starts with a user
\* message, so that every assistant message has the user message of its
\* turn before it, also after Clear Chat or a switch to bulk mode while a
\* turn is in flight.
MessagesStartWithUser ==
  messages # <<>> => messages[1].role = "user"

\* ------------------------------------------------ the runs of the page
\* A run of startBulkProcessing that has started and not ended.
ActiveRun(r) == run[r].pc \in {"fetch", "read", "errorDelay", "pause"}

\* C38: at most one bulk run is active at any time, whether runs are
\* started by the timer of an upload, by the Process button or by a second
\* upload: no two batch requests are in flight together.
OneBulkRunActive ==
  Cardinality({r \in Runs : ActiveRun(r)}) <= 1

\* C39: when a bulk run ends, the number of tickets its final status text
\* names, "Processing complete: N tickets processed", is processedCount,
\* whichever batches have failed.
CompleteStatusCountsProcessed ==
  [][\A r \in Runs :
       (run[r].pc # "done" /\ run'[r].pc = "done")
         => currentStatus'
              = "Processing complete: " \o ToString(processedCount')
                  \o " tickets processed"]_vars


====
